---- MODULE Spec2Model ----
(***************************************************************************)
(* Model of the duty-roster assignment engine: PersonState / GroupState    *)
(* (src/schedule/person_state.rs) and create_schedule (src/schedule.rs).   *)
(*                                                                         *)
(* Representation choices                                                  *)
(*  - a NaiveDate is its day number counted from 0001-01-01 = 1, which is  *)
(*    what num_days_from_ce() returns;                                     *)
(*  - Option<NaiveDate> is <<>> (None) or <<d>> (Some(d));                 *)
(*  - a person name, which format! composes, is a sequence of              *)
(*    one-character strings; every other String is a TLA+ string;          *)
(*  - a HashMap is a function whose DOMAIN is the set of present keys;     *)
(*  - Rc<RefCell<GroupState>> is an index into the arena `groups`;         *)
(*  - an i64 is a triple <<hi, mid, lo>> of base-2^21 limbs, see I64.      *)
(***************************************************************************)
EXTENDS Integers, Sequences, FiniteSets, TLC

VARIABLES
    dates,        \* create_schedule argument `dates: &Vec<NaiveDate>`
    config,       \* create_schedule argument `config: &Config`
    people,       \* Vec<PersonState>
    groups,       \* arena of the GroupState cells the people point to
    assignments,  \* Vec<Assignment>
    date_idx,     \* position of `for date in dates`
    place_idx,    \* position of `for place_id in &config.places.places`
    pc,           \* control position
    selected_config,    \* AppState.selected_config: Option<String>
    in_flight,          \* generate_schedule futures that have not completed
    selected_cell,      \* AppState.selected_cell: Option<CellPosition>
    highlighted_names,  \* AppState.highlighted_names: [Option<String>; 4]
    current             \* get_weekdays: `let mut current = *start`

vars == <<dates, config, people, groups, assignments, date_idx, place_idx, pc,
          selected_config, in_flight, selected_cell, highlighted_names,
          current>>

\* the variables of the GUI and of get_weekdays, which the engine does not
\* touch
gui_vars == <<selected_config, in_flight, selected_cell, highlighted_names,
              current>>

----------------------------------------------------------------------------
(* Bounds of the explored inputs *)

MaxDates == 2
MaxServices == 3

----------------------------------------------------------------------------
(* Generic helpers *)

None == <<>>
Some(d) == <<d>>

\* the config files the GUI can select
ConfigPaths == {"one.toml", "two.toml"}

\* the config of a state that holds none
NoConfig ==
    [ dates  |-> [exceptions |-> <<>>],
      places |-> [places |-> <<>>],
      group  |-> <<>>,
      rules  |-> [sort |-> <<>>, filter |-> <<>>] ]

\* AppState::default(), no command running and no get_weekdays call
AppState_default ==
    /\ selected_config = None
    /\ in_flight = [path \in ConfigPaths |-> 0]
    /\ selected_cell = None
    /\ highlighted_names = <<None, None, None, None>>
    /\ current = None

RECURSIVE SumSeq(_)
SumSeq(s) == IF s = <<>> THEN 0 ELSE Head(s) + SumSeq(Tail(s))

RECURSIVE SumValues(_)
SumValues(m) ==
    IF DOMAIN m = {} THEN 0
    ELSE LET k == CHOOSE x \in DOMAIN m : TRUE
         IN  m[k] + SumValues([x \in DOMAIN m \ {k} |-> m[x]])

EmptyMap == [x \in {} |-> 0]

MapGet(m, k) == IF k \in DOMAIN m THEN m[k] ELSE 0

MapIncrement(m, k) ==
    [x \in DOMAIN m \cup {k} |-> IF x = k THEN MapGet(m, k) + 1 ELSE m[x]]

MapRemove(m, k) == [x \in DOMAIN m \ {k} |-> m[x]]

SeqsUpTo(S, n) == UNION {[1..k -> S] : k \in 0..n}

Contains(s, x) == \E i \in 1..Len(s) : s[i] = x

----------------------------------------------------------------------------
(* chrono::NaiveDate *)

WeekdayNames == <<"Mon", "Tue", "Wed", "Thu", "Fri", "Sat", "Sun">>

weekday(d) == WeekdayNames[((d - 1) % 7) + 1]

num_days_from_ce(d) == d

----------------------------------------------------------------------------
(* i64 arithmetic.  <<hi, mid, lo>> stands for hi * 2^42 + mid * 2^21 + lo *)
(* with mid and lo in 0 .. 2^21 - 1 and hi in -2^21 .. 2^21 - 1.           *)

Limb == 2^21

I64(n) == <<0, n \div Limb, n % Limb>>

I64_MIN == <<0 - Limb, 0, 0>>

I64Less(a, b) ==
    \/ a[1] < b[1]
    \/ a[1] = b[1] /\ a[2] < b[2]
    \/ a[1] = b[1] /\ a[2] = b[2] /\ a[3] < b[3]

\* i64::MIN / n for n >= 1; Rust division truncates toward zero.
\* 2^63 is the base-2^21 numeral 1 0 0 0, divided digit by digit.
I64MinDiv(n) ==
    LET q3 == 1 \div n
        r3 == 1 % n
        q2 == (r3 * Limb) \div n
        r2 == (r3 * Limb) % n
        q1 == (r2 * Limb) \div n
        r1 == (r2 * Limb) % n
        q0 == (r1 * Limb) \div n
        H  == q3 * Limb + q2
    IN  IF q1 = 0 /\ q0 = 0 THEN <<0 - H, 0, 0>>
        ELSE IF q0 = 0 THEN <<0 - H - 1, Limb - q1, 0>>
        ELSE <<0 - H - 1, Limb - 1 - q1, Limb - q0>>

Max(a, b) == IF a >= b THEN a ELSE b

\* Ord for Vec<i64>: lexicographic, a proper prefix is smaller
RECURSIVE KeyLess(_, _)
KeyLess(a, b) ==
    IF b = <<>> THEN FALSE
    ELSE IF a = <<>> THEN TRUE
    ELSE IF I64Less(Head(a), Head(b)) THEN TRUE
    ELSE IF I64Less(Head(b), Head(a)) THEN FALSE
    ELSE KeyLess(Tail(a), Tail(b))

KeyLessEq(a, b) == ~KeyLess(b, a)

----------------------------------------------------------------------------
(* PersonState and GroupState, src/schedule/person_state.rs *)

GroupState_default == [last_service |-> None]

PersonState_new(name, place, group_state) ==
    [ name                     |-> name,
      place                    |-> place,
      total_services           |-> 0,
      last_service             |-> None,
      weekday_counts           |-> EmptyMap,
      place_counts             |-> EmptyMap,
      group_state              |-> group_state,
      different_place_services |-> 0 ]

\* register_service without the weekday bookkeeping
register_service_no_weekday(p, date, place) ==
    [p EXCEPT
        !.total_services = @ + 1,
        !.last_service = Some(date),
        !.place_counts = MapIncrement(@, place),
        !.different_place_services = IF place # p.place THEN @ + 1 ELSE @]

\* register_service counting the service at the person's own place
register_service_home_place(p, date, place) ==
    [p EXCEPT
        !.total_services = @ + 1,
        !.last_service = Some(date),
        !.weekday_counts = MapIncrement(@, weekday(date)),
        !.place_counts = MapIncrement(@, p.place),
        !.different_place_services = IF place # p.place THEN @ + 1 ELSE @]

\* the person's part of register_service
register_service(p, date, place) ==
    [p EXCEPT
        !.total_services = @ + 1,
        !.last_service = Some(date),
        !.weekday_counts = MapIncrement(@, weekday(date)),
        !.place_counts = MapIncrement(@, place),
        !.different_place_services = IF place # p.place THEN @ + 1 ELSE @]

\* register_service that leaves the shared cell alone
register_service_group_skip(gs, p, date) == gs

\* register_service that keeps the later of the stored and the new date
register_service_group_max(gs, p, date) ==
    [gs EXCEPT ![p.group_state] =
        IF @.last_service # None /\ @.last_service[1] > date
        THEN @ ELSE [last_service |-> Some(date)]]

\* the shared-cell part of register_service: the cell is overwritten
register_service_group(gs, p, date) ==
    [gs EXCEPT ![p.group_state] = [last_service |-> Some(date)]]

\* DecrementEntry leaving the entry in the map when it reaches zero
DecrementEntry_keep_zero(m, k) ==
    IF k \in DOMAIN m /\ m[k] > 0 THEN [m EXCEPT ![k] = @ - 1] ELSE m

DecrementEntry(m, k) ==
    IF k \in DOMAIN m /\ m[k] > 0
    THEN IF m[k] - 1 = 0 THEN MapRemove(m, k) ELSE [m EXCEPT ![k] = @ - 1]
    ELSE m

\* unregister_service decrementing without the `> 0` guards
unregister_service_unclamped(p, date, place) ==
    [p EXCEPT
        !.total_services = @ - 1,
        !.weekday_counts = DecrementEntry(@, weekday(date)),
        !.place_counts = DecrementEntry(@, place),
        !.different_place_services = IF place # p.place THEN @ - 1 ELSE @,
        !.last_service = IF @ = Some(date) THEN None ELSE @]

\* unregister_service forgetting the last service date whatever the date
unregister_service_forget_date(p, date, place) ==
    [p EXCEPT
        !.total_services = IF @ > 0 THEN @ - 1 ELSE @,
        !.weekday_counts = DecrementEntry(@, weekday(date)),
        !.place_counts = DecrementEntry(@, place),
        !.different_place_services =
            IF place # p.place /\ @ > 0 THEN @ - 1 ELSE @,
        !.last_service = None]

unregister_service(p, date, place) ==
    [p EXCEPT
        !.total_services = IF @ > 0 THEN @ - 1 ELSE @,
        !.weekday_counts = DecrementEntry(@, weekday(date)),
        !.place_counts = DecrementEntry(@, place),
        !.different_place_services =
            IF place # p.place /\ @ > 0 THEN @ - 1 ELSE @,
        !.last_service = IF @ = Some(date) THEN None ELSE @]

Rules ==
    { "FilterSamePlace", "SortByLeastServices",
      "SortByLessServicesAtSameWeekday", "SortByLastService",
      "SortByMaxDistanceInGroup", "SortByOwnPlace",
      "SortByDifferentPlaceServices" }

\* sort_key_rule whose own-place branch of DifferentPlaceServices is 0
sort_key_rule_home_zero(p, gs, date, place_id, rule) ==
    CASE rule = "SortByLeastServices" -> I64(p.total_services)
      [] rule = "SortByOwnPlace" ->
            IF p.place = place_id THEN I64(0) ELSE I64(1)
      [] rule = "SortByDifferentPlaceServices" ->
            IF p.place # place_id
            THEN I64(p.different_place_services)
            ELSE I64(0)
      [] rule = "SortByLastService" ->
            IF p.last_service # None
            THEN I64(num_days_from_ce(p.last_service[1]) \div 7)
            ELSE I64_MIN
      [] rule = "SortByLessServicesAtSameWeekday" ->
            I64(MapGet(p.weekday_counts, weekday(date)))
      [] rule = "SortByMaxDistanceInGroup" ->
            IF gs[p.group_state].last_service # None
            THEN I64(num_days_from_ce(gs[p.group_state].last_service[1]))
            ELSE I64_MIN
      [] rule = "FilterSamePlace" -> I64(0)

\* sort_key_rule whose own-place branch of DifferentPlaceServices is i64::MIN
sort_key_rule_home_min(p, gs, date, place_id, rule) ==
    CASE rule = "SortByLeastServices" -> I64(p.total_services)
      [] rule = "SortByOwnPlace" ->
            IF p.place = place_id THEN I64(0) ELSE I64(1)
      [] rule = "SortByDifferentPlaceServices" ->
            IF p.place # place_id
            THEN I64(p.different_place_services)
            ELSE I64_MIN
      [] rule = "SortByLastService" ->
            IF p.last_service # None
            THEN I64(num_days_from_ce(p.last_service[1]) \div 7)
            ELSE I64_MIN
      [] rule = "SortByLessServicesAtSameWeekday" ->
            I64(MapGet(p.weekday_counts, weekday(date)))
      [] rule = "SortByMaxDistanceInGroup" ->
            IF gs[p.group_state].last_service # None
            THEN I64(num_days_from_ce(gs[p.group_state].last_service[1]))
            ELSE I64_MIN
      [] rule = "FilterSamePlace" -> I64(0)

\* sort_key_rule whose LastService component is not divided by 7
sort_key_rule_daily(p, gs, date, place_id, rule) ==
    CASE rule = "SortByLeastServices" -> I64(p.total_services)
      [] rule = "SortByOwnPlace" ->
            IF p.place = place_id THEN I64(0) ELSE I64(1)
      [] rule = "SortByDifferentPlaceServices" ->
            IF p.place # place_id
            THEN I64(p.different_place_services)
            ELSE I64MinDiv(Max(p.different_place_services, 1))
      [] rule = "SortByLastService" ->
            IF p.last_service # None
            THEN I64(num_days_from_ce(p.last_service[1]))
            ELSE I64_MIN
      [] rule = "SortByLessServicesAtSameWeekday" ->
            I64(MapGet(p.weekday_counts, weekday(date)))
      [] rule = "SortByMaxDistanceInGroup" ->
            IF gs[p.group_state].last_service # None
            THEN I64(num_days_from_ce(gs[p.group_state].last_service[1]))
            ELSE I64_MIN
      [] rule = "FilterSamePlace" -> I64(0)

\* sort_key_rule whose LeastServices component ignores the number of services
sort_key_rule_blind_total(p, gs, date, place_id, rule) ==
    CASE rule = "SortByLeastServices" -> I64(0)
      [] rule = "SortByOwnPlace" ->
            IF p.place = place_id THEN I64(0) ELSE I64(1)
      [] rule = "SortByDifferentPlaceServices" ->
            IF p.place # place_id
            THEN I64(p.different_place_services)
            ELSE I64MinDiv(Max(p.different_place_services, 1))
      [] rule = "SortByLastService" ->
            IF p.last_service # None
            THEN I64(num_days_from_ce(p.last_service[1]) \div 7)
            ELSE I64_MIN
      [] rule = "SortByLessServicesAtSameWeekday" ->
            I64(MapGet(p.weekday_counts, weekday(date)))
      [] rule = "SortByMaxDistanceInGroup" ->
            IF gs[p.group_state].last_service # None
            THEN I64(num_days_from_ce(gs[p.group_state].last_service[1]))
            ELSE I64_MIN
      [] rule = "FilterSamePlace" -> I64(0)

\* sort_key_rule in which FilterSamePlace ranks the people of the place first
sort_key_rule_filter_ranks(p, gs, date, place_id, rule) ==
    CASE rule = "SortByLeastServices" -> I64(p.total_services)
      [] rule = "SortByOwnPlace" ->
            IF p.place = place_id THEN I64(0) ELSE I64(1)
      [] rule = "SortByDifferentPlaceServices" ->
            IF p.place # place_id
            THEN I64(p.different_place_services)
            ELSE I64MinDiv(Max(p.different_place_services, 1))
      [] rule = "SortByLastService" ->
            IF p.last_service # None
            THEN I64(num_days_from_ce(p.last_service[1]) \div 7)
            ELSE I64_MIN
      [] rule = "SortByLessServicesAtSameWeekday" ->
            I64(MapGet(p.weekday_counts, weekday(date)))
      [] rule = "SortByMaxDistanceInGroup" ->
            IF gs[p.group_state].last_service # None
            THEN I64(num_days_from_ce(gs[p.group_state].last_service[1]))
            ELSE I64_MIN
      [] rule = "FilterSamePlace" ->
            IF p.place = place_id THEN I64(0) ELSE I64(1)

\* sort_key_rule whose OwnPlace component prefers the people of other places
sort_key_rule_own_place_last(p, gs, date, place_id, rule) ==
    CASE rule = "SortByLeastServices" -> I64(p.total_services)
      [] rule = "SortByOwnPlace" ->
            IF p.place = place_id THEN I64(1) ELSE I64(0)
      [] rule = "SortByDifferentPlaceServices" ->
            IF p.place # place_id
            THEN I64(p.different_place_services)
            ELSE I64MinDiv(Max(p.different_place_services, 1))
      [] rule = "SortByLastService" ->
            IF p.last_service # None
            THEN I64(num_days_from_ce(p.last_service[1]) \div 7)
            ELSE I64_MIN
      [] rule = "SortByLessServicesAtSameWeekday" ->
            I64(MapGet(p.weekday_counts, weekday(date)))
      [] rule = "SortByMaxDistanceInGroup" ->
            IF gs[p.group_state].last_service # None
            THEN I64(num_days_from_ce(gs[p.group_state].last_service[1]))
            ELSE I64_MIN
      [] rule = "FilterSamePlace" -> I64(0)

\* one component of sort_key
sort_key_rule(p, gs, date, place_id, rule) ==
    CASE rule = "SortByLeastServices" -> I64(p.total_services)
      [] rule = "SortByOwnPlace" ->
            IF p.place = place_id THEN I64(0) ELSE I64(1)
      [] rule = "SortByDifferentPlaceServices" ->
            IF p.place # place_id
            THEN I64(p.different_place_services)
            ELSE I64MinDiv(Max(p.different_place_services, 1))
      [] rule = "SortByLastService" ->
            IF p.last_service # None
            THEN I64(num_days_from_ce(p.last_service[1]) \div 7)
            ELSE I64_MIN
      [] rule = "SortByLessServicesAtSameWeekday" ->
            I64(MapGet(p.weekday_counts, weekday(date)))
      [] rule = "SortByMaxDistanceInGroup" ->
            IF gs[p.group_state].last_service # None
            THEN I64(num_days_from_ce(gs[p.group_state].last_service[1]))
            ELSE I64_MIN
      [] rule = "FilterSamePlace" -> I64(0)

\* sort_key collecting the components in reverse rule order
sort_key_reversed(p, gs, date, place_id, rules) ==
    [r \in 1..Len(rules.sort) |->
        sort_key_rule(p, gs, date, place_id,
                      rules.sort[Len(rules.sort) + 1 - r])]

sort_key(p, gs, date, place_id, rules) ==
    [r \in 1..Len(rules.sort) |->
        sort_key_rule(p, gs, date, place_id, rules.sort[r])]

----------------------------------------------------------------------------
(* create_people, src/schedule.rs *)

\* format!("{} {}", member.name, group.name)
FormatName(member_name, group_name) == member_name \o <<" ">> \o group_name

\* create_people handing the first group's cell to every person
RECURSIVE create_people_one_cell(_, _)
create_people_one_cell(group, g) ==
    IF g > Len(group) THEN <<>>
    ELSE [m \in 1..Len(group[g].members) |->
              PersonState_new(FormatName(group[g].members[m].name,
                                         group[g].name),
                              group[g].place, 1)]
         \o create_people_one_cell(group, g + 1)

RECURSIVE create_people(_, _)
create_people(group, g) ==
    IF g > Len(group) THEN <<>>
    ELSE [m \in 1..Len(group[g].members) |->
              PersonState_new(FormatName(group[g].members[m].name,
                                         group[g].name),
                              group[g].place, g)]
         \o create_people(group, g + 1)

create_groups(group) == [g \in 1..Len(group) |-> GroupState_default]

----------------------------------------------------------------------------
(* Inputs explored *)

\* 2025-09-01 (Mon) and 2025-09-10 (Wed of the next week)
DateUniverse == {739495, 739504}

DateLists == SeqsUpTo(DateUniverse, MaxDates)

ExceptionLists == {<<>>, <<739504>>}

PlaceLists == {<<>>, <<"A">>, <<"A", "B">>, <<"B", "A">>, <<"A", "A">>}

Member(n) == [name |-> <<n>>]

GroupConfigs ==
    { <<>>,
      \* the layout of test/config.toml: two groups, three people
      << [name |-> <<"M">>, place |-> "A",
          members |-> <<Member("a"), Member("b")>>],
         [name |-> <<"D">>, place |-> "B", members |-> <<Member("c")>>] >>,
      \* two members with the same name, and a home place that is no place
      << [name |-> <<"M">>, place |-> "A",
          members |-> <<Member("a"), Member("a")>>],
         [name |-> <<"D">>, place |-> "C", members |-> <<Member("c")>>] >>,
      \* two groups with the same name and place
      << [name |-> <<"M">>, place |-> "A", members |-> <<Member("a")>>],
         [name |-> <<"M">>, place |-> "A", members |-> <<Member("b")>>] >> }

SortLists ==
    { <<>>,
      <<"SortByLeastServices">>,
      <<"SortByLessServicesAtSameWeekday">>,
      <<"SortByLastService">>,
      <<"SortByMaxDistanceInGroup">>,
      <<"SortByOwnPlace">>,
      <<"SortByDifferentPlaceServices">>,
      <<"FilterSamePlace">>,
      <<"SortByLeastServices", "FilterSamePlace">>,
      <<"SortByDifferentPlaceServices", "SortByLeastServices">>,
      <<"SortByLeastServices", "SortByLessServicesAtSameWeekday",
        "SortByOwnPlace", "SortByLastService", "SortByMaxDistanceInGroup",
        "SortByDifferentPlaceServices">> }

FilterLists == {<<>>, <<"FilterSamePlace">>}

Configs ==
    { [ dates  |-> [exceptions |-> e],
        places |-> [places |-> pl],
        group  |-> g,
        rules  |-> [sort |-> s, filter |-> f] ] :
      e \in ExceptionLists, pl \in PlaceLists, g \in GroupConfigs,
      s \in SortLists, f \in FilterLists }

----------------------------------------------------------------------------
(* create_schedule, src/schedule.rs *)

\* the filter flag read from the sort rules
filter_same_workid_sort == Contains(config.rules.sort, "FilterSamePlace")

filter_same_workid == Contains(config.rules.filter, "FilterSamePlace")

\* a candidate list that falls back to everybody when the filter leaves
\* nobody
Candidates_fallback(ps, place_id) ==
    LET own == SelectSeq([i \in 1..Len(ps) |-> i],
                         LAMBDA i : ~Contains(config.rules.filter,
                                              "FilterSamePlace")
                                    \/ ps[i].place = place_id)
    IN  IF own = <<>> THEN [i \in 1..Len(ps) |-> i] ELSE own

\* a candidate list without the people already serving on the date
Candidates_once_per_date(ps, place_id) ==
    SelectSeq([i \in 1..Len(ps) |-> i],
              LAMBDA i : /\ ~Contains(config.rules.filter, "FilterSamePlace")
                            \/ ps[i].place = place_id
                         /\ ps[i].last_service # <<dates[date_idx]>>)

\* a candidate list of the people who have not served yet
Candidates_unserved(ps, place_id) ==
    SelectSeq([i \in 1..Len(ps) |-> i],
              LAMBDA i : /\ ~Contains(config.rules.filter, "FilterSamePlace")
                            \/ ps[i].place = place_id
                         /\ ps[i].total_services = 0)

\* people.iter_mut().filter(..).collect(): positions in `people`, in order
Candidates(ps, place_id) ==
    SelectSeq([i \in 1..Len(ps) |-> i],
              LAMBDA i : ~filter_same_workid \/ ps[i].place = place_id)

\* insertion of x in front of the elements of equal key: an unstable sort
RECURSIVE InsertByKey_before_equal(_, _, _)
InsertByKey_before_equal(sorted, x, keys) ==
    IF sorted = <<>> THEN <<x>>
    ELSE IF KeyLessEq(keys[x], keys[Head(sorted)]) THEN <<x>> \o sorted
    ELSE <<Head(sorted)>> \o InsertByKey_before_equal(Tail(sorted), x, keys)

\* stable insertion of x behind every element whose key is not greater
RECURSIVE InsertByKey(_, _, _)
InsertByKey(sorted, x, keys) ==
    IF sorted = <<>> THEN <<x>>
    ELSE IF KeyLess(keys[x], keys[Head(sorted)]) THEN <<x>> \o sorted
    ELSE <<Head(sorted)>> \o InsertByKey(Tail(sorted), x, keys)

\* slice::sort_by_key is a stable sort
RECURSIVE sort_by_key(_, _)
sort_by_key(s, keys) ==
    IF s = <<>> THEN <<>>
    ELSE InsertByKey(sort_by_key(SubSeq(s, 1, Len(s) - 1), keys),
                     s[Len(s)], keys)

\* the other end of the sorted candidates
first_mut_last(sorted) == sorted[Len(sorted)]

\* candidates.first_mut()
first_mut(sorted) == sorted[1]

\* every order people.shuffle(&mut rng) can produce
Shuffles(ps) ==
    { [i \in 1..Len(ps) |-> ps[perm[i]]] : perm \in Permutations(1..Len(ps)) }

\* the exception list ignored
IsException_off(date) == FALSE

IsException(date) == Contains(config.dates.exceptions, date)

Init ==
    /\ dates \in DateLists
    /\ config \in Configs
    /\ people = create_people(config.group, 1)
    /\ groups = create_groups(config.group)
    /\ assignments = <<>>
    /\ date_idx = 1
    /\ place_idx = 1
    /\ pc = "date"
    /\ AppState_default

\* an excepted date that is met again and again
SkipException_stuck ==
    /\ pc = "date"
    /\ date_idx <= Len(dates)
    /\ IsException(dates[date_idx])
    /\ UNCHANGED <<dates, config, people, groups, assignments, date_idx,
                   place_idx, pc>>
    /\ UNCHANGED gui_vars

\* `if config.dates.exceptions.contains(date) { continue; }`
SkipException ==
    /\ pc = "date"
    /\ date_idx <= Len(dates)
    /\ IsException(dates[date_idx])
    /\ date_idx' = date_idx + 1
    /\ UNCHANGED <<dates, config, people, groups, assignments, place_idx, pc>>
    /\ UNCHANGED gui_vars

\* `people.shuffle(&mut rng)` and entry into the loop over the places
Shuffle ==
    /\ pc = "date"
    /\ date_idx <= Len(dates)
    /\ ~IsException(dates[date_idx])
    /\ people' \in Shuffles(people)
    /\ place_idx' = 1
    /\ pc' = "place"
    /\ UNCHANGED <<dates, config, groups, assignments, date_idx>>
    /\ UNCHANGED gui_vars

\* FillPlace with the registration put off until the places are done
FillPlace_deferred ==
    /\ pc = "place"
    /\ place_idx <= Len(config.places.places)
    /\ LET date     == dates[date_idx]
           place_id == config.places.places[place_idx]
           keys     == [i \in 1..Len(people) |->
                          sort_key(people[i], groups, date, place_id,
                                   config.rules)]
           sorted   == sort_by_key(Candidates(people, place_id), keys)
       IN  IF sorted # <<>>
           THEN assignments' =
                    Append(assignments,
                           [date   |-> date,
                            place  |-> place_id,
                            person |-> people[first_mut(sorted)].name])
           ELSE UNCHANGED assignments
    /\ place_idx' = place_idx + 1
    /\ UNCHANGED <<dates, config, people, groups, date_idx, pc>>
    /\ UNCHANGED gui_vars

\* FillPlace taking any candidate of minimal key
FillPlace_any_minimum ==
    /\ pc = "place"
    /\ place_idx <= Len(config.places.places)
    /\ LET date     == dates[date_idx]
           place_id == config.places.places[place_idx]
           keys     == [i \in 1..Len(people) |->
                          sort_key(people[i], groups, date, place_id,
                                   config.rules)]
           cands    == Candidates(people, place_id)
       IN  IF cands # <<>>
           THEN \E c \in 1..Len(cands) :
                    /\ \A d \in 1..Len(cands) :
                          KeyLessEq(keys[cands[c]], keys[cands[d]])
                    /\ assignments' =
                          Append(assignments,
                                 [date   |-> date,
                                  place  |-> place_id,
                                  person |-> people[cands[c]].name])
                    /\ people' =
                          [people EXCEPT
                             ![cands[c]] = register_service(@, date, place_id)]
                    /\ groups' =
                          register_service_group(groups, people[cands[c]], date)
           ELSE UNCHANGED <<assignments, people, groups>>
    /\ place_idx' = place_idx + 1
    /\ UNCHANGED <<dates, config, date_idx, pc>>
    /\ UNCHANGED gui_vars

\* one iteration of `for place_id in &config.places.places`
FillPlace ==
    /\ pc = "place"
    /\ place_idx <= Len(config.places.places)
    /\ LET date     == dates[date_idx]
           place_id == config.places.places[place_idx]
           keys     == [i \in 1..Len(people) |->
                          sort_key(people[i], groups, date, place_id,
                                   config.rules)]
           sorted   == sort_by_key(Candidates(people, place_id), keys)
       IN  IF sorted # <<>>
           THEN LET chosen == first_mut(sorted)
                IN  /\ assignments' =
                          Append(assignments,
                                 [date   |-> date,
                                  place  |-> place_id,
                                  person |-> people[chosen].name])
                    /\ people' =
                          [people EXCEPT
                             ![chosen] = register_service(@, date, place_id)]
                    /\ groups' =
                          register_service_group(groups, people[chosen], date)
           ELSE UNCHANGED <<assignments, people, groups>>
    /\ place_idx' = place_idx + 1
    /\ UNCHANGED <<dates, config, date_idx, pc>>
    /\ UNCHANGED gui_vars

\* the loop over the places left one place early
NextDate_early ==
    /\ pc = "place"
    /\ place_idx >= Len(config.places.places)
    /\ date_idx' = date_idx + 1
    /\ pc' = "date"
    /\ UNCHANGED <<dates, config, people, groups, assignments, place_idx>>
    /\ UNCHANGED gui_vars

\* the loop over the places is exhausted: next date
NextDate ==
    /\ pc = "place"
    /\ place_idx > Len(config.places.places)
    /\ date_idx' = date_idx + 1
    /\ pc' = "date"
    /\ UNCHANGED <<dates, config, people, groups, assignments, place_idx>>
    /\ UNCHANGED gui_vars

\* `(assignments, people)` is returned
Return ==
    /\ pc = "date"
    /\ date_idx > Len(dates)
    /\ pc' = "done"
    /\ UNCHANGED <<dates, config, people, groups, assignments, date_idx,
                   place_idx>>
    /\ UNCHANGED gui_vars

Next == SkipException \/ Shuffle \/ FillPlace \/ NextDate \/ Return

Spec == Init /\ [][Next]_vars

----------------------------------------------------------------------------
(* PersonState used directly: any caller may register and unregister any   *)
(* (date, place) on any person, as the manual slot edits of the GUI do.    *)

PlaceUniverse == {"A", "B"}

\* the dates of the schedule: a Monday and the Wednesday of the next week
LedgerDates == DateUniverse

\* one group of two, and two groups of one
LedgerGroupConfigs ==
    { << [name |-> <<"M">>, place |-> "A",
          members |-> <<Member("a"), Member("b")>>] >>,
      << [name |-> <<"M">>, place |-> "A", members |-> <<Member("a")>>],
         [name |-> <<"D">>, place |-> "B", members |-> <<Member("c")>>] >> }

LedgerConfigs ==
    { [ dates  |-> [exceptions |-> <<>>],
        places |-> [places |-> <<"A", "B">>],
        group  |-> g,
        rules  |-> [sort |-> <<>>, filter |-> <<>>] ] :
      g \in LedgerGroupConfigs }

TotalServices(ps) == SumSeq([i \in 1..Len(ps) |-> ps[i].total_services])

\* the largest of the counter sums: unregister_service can lower
\* total_services without lowering the other counters
LedgerSize(ps) ==
    Max(TotalServices(ps),
        Max(SumSeq([i \in 1..Len(ps) |-> SumValues(ps[i].weekday_counts)]),
            SumSeq([i \in 1..Len(ps) |-> SumValues(ps[i].place_counts)])))

LedgerInit ==
    /\ dates = <<>>
    /\ config \in LedgerConfigs
    /\ people = create_people(config.group, 1)
    /\ groups = create_groups(config.group)
    /\ assignments = <<>>
    /\ date_idx = 1
    /\ place_idx = 1
    /\ pc = "ledger"
    /\ AppState_default

\* PersonState::register_service(&mut self, date, place)
RegisterService ==
    /\ pc = "ledger"
    /\ LedgerSize(people) < MaxServices
    /\ \E i \in 1..Len(people), date \in LedgerDates, place \in PlaceUniverse :
          /\ people' = [people EXCEPT ![i] = register_service(@, date, place)]
          /\ groups' = register_service_group(groups, people[i], date)
    /\ UNCHANGED <<dates, config, assignments, date_idx, place_idx, pc>>
    /\ UNCHANGED gui_vars

\* unregister_service that also clears the date of the shared cell
UnregisterService_reset_group ==
    /\ pc = "ledger"
    /\ \E i \in 1..Len(people), date \in LedgerDates, place \in PlaceUniverse :
          /\ people' = [people EXCEPT ![i] = unregister_service(@, date, place)]
          /\ groups' = [groups EXCEPT ![people[i].group_state] =
                            GroupState_default]
    /\ UNCHANGED <<dates, config, assignments, date_idx, place_idx, pc>>
    /\ UNCHANGED gui_vars

\* PersonState::unregister_service(&mut self, date, place)
UnregisterService ==
    /\ pc = "ledger"
    /\ \E i \in 1..Len(people), date \in LedgerDates, place \in PlaceUniverse :
          people' = [people EXCEPT ![i] = unregister_service(@, date, place)]
    /\ UNCHANGED <<dates, config, groups, assignments, date_idx, place_idx, pc>>
    /\ UNCHANGED gui_vars

LedgerNext == RegisterService \/ UnregisterService

LedgerSpec == LedgerInit /\ [][LedgerNext]_vars

----------------------------------------------------------------------------
(* Properties of create_schedule (checked under Spec) *)

Places == config.places.places

WeekdaySum(ps) == SumSeq([i \in 1..Len(ps) |-> SumValues(ps[i].weekday_counts)])

PlaceSum(ps) == SumSeq([i \in 1..Len(ps) |-> SumValues(ps[i].place_counts)])

NoDuplicates(s) == \A i, j \in 1..Len(s) : i # j => s[i] # s[j]

UniqueNames == \A i, j \in 1..Len(people) : i # j => people[i].name # people[j].name

FilterActive == \E k \in 1..Len(config.rules.filter) :
                    config.rules.filter[k] = "FilterSamePlace"

Excepted(d) == \E k \in 1..Len(config.dates.exceptions) :
                    config.dates.exceptions[k] = d

\* number of emitted assignments of a (date, place) slot
SlotCount(d, pl) ==
    Cardinality({k \in 1..Len(assignments) :
                    assignments[k].date = d /\ assignments[k].place = pl})

\* number of emitted assignments naming `name` at place pl
NamedCount(name, pl) ==
    Cardinality({k \in 1..Len(assignments) :
                    assignments[k].person = name /\ assignments[k].place = pl})

\* C1: Conservation. When create_schedule has returned, the sum of
\* total_services over the returned people equals the number of emitted
\* assignments, and so do the sum of all weekday_counts values and the sum
\* of all place_counts values.
C1_Conservation ==
    pc = "done" =>
        /\ TotalServices(people) = Len(assignments)
        /\ WeekdaySum(people) = Len(assignments)
        /\ PlaceSum(people) = Len(assignments)

C1_Witness ==
    /\ pc = "done"
    /\ Len(assignments) >= 3
    /\ \E i \in 1..Len(people) : people[i].total_services >= 2

C3_ExceptionRespect ==
    /\ [](\A k \in 1..Len(assignments) : ~Excepted(assignments[k].date))
    /\ [][(pc = "date" /\ date_idx <= Len(dates) /\ Excepted(dates[date_idx]))
            => /\ people' = people
               /\ groups' = groups
               /\ assignments' = assignments]_vars

C3_Witness ==
    /\ pc = "done"
    /\ \E k \in 1..Len(dates) : Excepted(dates[k])
    /\ assignments # <<>>

\* C4: Filter respect. When rules.filter contains FilterSamePlace, every
\* emitted assignment names a person whose home place is the assignment's
\* place, and every person's different_place_services is 0.
C4_FilterRespect ==
    FilterActive =>
        /\ \A k \in 1..Len(assignments) :
              \E i \in 1..Len(people) :
                  /\ people[i].name = assignments[k].person
                  /\ people[i].place = assignments[k].place
        /\ \A i \in 1..Len(people) : people[i].different_place_services = 0

C4_Witness ==
    /\ pc = "done"
    /\ FilterActive
    /\ \E k \in 1..Len(assignments) : assignments[k].place = "A"
    /\ \E k \in 1..Len(assignments) : assignments[k].place = "B"

\* a slot has a candidate: a person exists, and with the filter a person
\* whose home place is the slot's place
HasCandidate(pl) ==
    \E i \in 1..Len(people) : ~FilterActive \/ people[i].place = pl

NonExceptedDates == {k \in 1..Len(dates) : ~Excepted(dates[k])}

\* C5: Slot completeness. For input dates and places without duplicates,
\* the returned assignments hold exactly one entry for every (date, place)
\* whose date is not excepted and whose place has a candidate, and no other
\* entry; when every place has a candidate their number is
\* (non-excepted input dates) x (places).
C5_SlotCompleteness ==
    (pc = "done" /\ NoDuplicates(dates) /\ NoDuplicates(Places)) =>
        /\ \A d \in 1..Len(dates), k \in 1..Len(Places) :
              SlotCount(dates[d], Places[k]) =
                 IF ~Excepted(dates[d]) /\ HasCandidate(Places[k])
                 THEN 1 ELSE 0
        /\ \A a \in 1..Len(assignments) :
              /\ \E d \in 1..Len(dates) : dates[d] = assignments[a].date
              /\ \E k \in 1..Len(Places) : Places[k] = assignments[a].place
        /\ (\A k \in 1..Len(Places) : HasCandidate(Places[k])) =>
              Len(assignments) = Cardinality(NonExceptedDates) * Len(Places)

C5_Witness ==
    /\ pc = "done"
    /\ NoDuplicates(dates)
    /\ Len(dates) = 2
    /\ Len(Places) = 2
    /\ \E d \in 1..Len(dates) : Excepted(dates[d])
    /\ \E k \in 1..Len(Places) : ~HasCandidate(Places[k])
    /\ Len(assignments) = 1

\* the position of the person registered by a step (the people keep their
\* order while the places of a date are filled)
Registered == CHOOSE i \in 1..Len(people) : people'[i] # people[i]

SlotKey(i) == sort_key(people[i], groups, dates[date_idx], Places[place_idx],
                       config.rules)

\* C6: Winner minimality. Whenever an assignment is emitted, it names the
\* person registered by that step, and that person's sort_key for the slot,
\* taken on the ledgers before the registration, is lexicographically less
\* than or equal to the sort_key of every candidate of the slot.
C6_WinnerMinimal ==
    [][Len(assignments') = Len(assignments) + 1 =>
         /\ \E i \in 1..Len(people) : people'[i] # people[i]
         /\ assignments'[Len(assignments')] =
               [date   |-> dates[date_idx],
                place  |-> Places[place_idx],
                person |-> people[Registered].name]
         /\ ~FilterActive \/ people[Registered].place = Places[place_idx]
         /\ \A c \in 1..Len(people) :
               (~FilterActive \/ people[c].place = Places[place_idx])
                   => KeyLessEq(SlotKey(Registered), SlotKey(c))]_vars

\* a slot was decided between candidates with different keys
C6_Witness ==
    /\ pc = "place"
    /\ place_idx = 2
    /\ Len(Places) >= 2
    /\ Len(assignments) >= 1
    /\ assignments[Len(assignments)].date = dates[date_idx]
    /\ config.rules.sort = <<"SortByDifferentPlaceServices", "SortByLeastServices">>
    /\ \E i, j \in 1..Len(people) :
          KeyLess(sort_key(people[i], groups, dates[date_idx], Places[2],
                           config.rules),
                  sort_key(people[j], groups, dates[date_idx], Places[2],
                           config.rules))

\* the last emitted assignment is the one of the previous place of the
\* date being filled
PreviousPlaceFilled ==
    /\ pc = "place"
    /\ place_idx > 1
    /\ assignments # <<>>
    /\ assignments[Len(assignments)].date = dates[date_idx]
    /\ assignments[Len(assignments)].place = Places[place_idx - 1]

\* C7: Immediate registration. When a place of a date is about to be
\* ranked, every assignment emitted so far is registered, and the winner of
\* the previous place of the same date already shows the incremented
\* total_services and weekday count, last_service = the date, and the
\* group's shared date = the date.
C7_ImmediateRegistration ==
    /\ pc = "place" => TotalServices(people) = Len(assignments)
    /\ PreviousPlaceFilled =>
          \E i \in 1..Len(people) :
              /\ people[i].name = assignments[Len(assignments)].person
              /\ people[i].total_services >= 1
              /\ MapGet(people[i].weekday_counts, weekday(dates[date_idx])) >= 1
              /\ people[i].last_service = Some(dates[date_idx])
              /\ groups[people[i].group_state].last_service
                    = Some(dates[date_idx])

\* the second place of a date is ranked under SortByLeastServices while the
\* winner of the first place stands at one service more than somebody else
C7_Witness ==
    /\ PreviousPlaceFilled
    /\ place_idx <= Len(Places)
    /\ config.rules.sort = <<"SortByLeastServices">>
    /\ \E i, j \in 1..Len(people) :
          /\ people[i].name = assignments[Len(assignments)].person
          /\ people[i].last_service = Some(dates[date_idx])
          /\ people[j].total_services < people[i].total_services

\* C8: Empty candidate set. With FilterSamePlace active and no person at
\* home in the place being filled, the step emits nothing, changes no
\* ledger and no GroupState, and moves on to the next place of the date.
C8_EmptyCandidatesNoOp ==
    [][(/\ pc = "place"
        /\ place_idx <= Len(Places)
        /\ FilterActive
        /\ \A i \in 1..Len(people) : people[i].place # Places[place_idx])
         => /\ assignments' = assignments
            /\ people' = people
            /\ groups' = groups
            /\ pc' = "place"
            /\ date_idx' = date_idx
            /\ place_idx' = place_idx + 1]_vars

\* a place without candidates was passed and a later place of the same
\* date was filled
C8_Witness ==
    /\ FilterActive
    /\ people # <<>>
    /\ Len(Places) = 2
    /\ \A i \in 1..Len(people) : people[i].place # Places[1]
    /\ \E k \in 1..Len(assignments) : assignments[k].place = Places[2]

----------------------------------------------------------------------------
(* Properties of PersonState (checked under LedgerSpec) *)

\* C9: Ledger invariant. In every PersonState reachable by register_service
\* and unregister_service calls, total_services equals the sum of the
\* weekday_counts values and the sum of the place_counts values.
C9_LedgerSums ==
    \A i \in 1..Len(people) :
        /\ people[i].total_services = SumValues(people[i].weekday_counts)
        /\ people[i].total_services = SumValues(people[i].place_counts)

\* C10: In every PersonState reachable by register_service and
\* unregister_service calls, different_place_services <= total_services.
C10_DifferentPlaceAtMostTotal ==
    \A i \in 1..Len(people) :
        people[i].different_place_services <= people[i].total_services

\* the configured group of the person at position i of create_people's
\* result (the ledger specification never reorders the people)
RECURSIVE ConfigGroupAt(_, _, _)
ConfigGroupAt(group, g, i) ==
    IF i <= Len(group[g].members) THEN g
    ELSE ConfigGroupAt(group, g + 1, i - Len(group[g].members))

ConfigGroupOf(i) == ConfigGroupAt(config.group, 1, i)

SameConfigGroup(i, j) == ConfigGroupOf(i) = ConfigGroupOf(j)

\* the MaxDistanceInGroup component of person i's key
MaxDistance(ps, gs, i) ==
    sort_key(ps[i], gs, 739495, "A",
             [sort |-> <<"SortByMaxDistanceInGroup">>, filter |-> <<>>])[1]

\* person i is registered by the step; the date is its new last_service
RegisterStep(i) ==
    people'[i].total_services = people[i].total_services + 1

\* C11: Group coupling. In every state the members of one configured group
\* have the same MaxDistanceInGroup component, and a step in which a member
\* registers a service on date d leaves every member of that group, served
\* or not, with the component days_since_epoch(d), which is greater than
\* MIN_INT, the component of a person whose group never served.
C11_GroupCoupling ==
    /\ [](\A i, j \in 1..Len(people) :
             SameConfigGroup(i, j) =>
                 MaxDistance(people, groups, i) = MaxDistance(people, groups, j))
    /\ [][\A i \in 1..Len(people) :
             RegisterStep(i) =>
                 \A j \in 1..Len(people) :
                     SameConfigGroup(i, j) =>
                         /\ MaxDistance(people', groups', j)
                               = I64(people'[i].last_service[1])
                         /\ I64Less(I64_MIN, MaxDistance(people', groups', j))]_vars
    /\ [](\A i \in 1..Len(people) :
             groups[people[i].group_state].last_service = None =>
                 MaxDistance(people, groups, i) = I64_MIN)

\* a member that never served sees the date of its group-mate's service
C11_Witness ==
    /\ pc = "ledger"
    /\ \E i, j \in 1..Len(people) :
          /\ i # j
          /\ SameConfigGroup(i, j)
          /\ people[j] = PersonState_new(people[j].name, people[j].place,
                                         people[j].group_state)
          /\ people[i].last_service # None
          /\ MaxDistance(people, groups, j) = I64(people[i].last_service[1])

\* C12: Last-write group update. A step in which a member registers a
\* service on date d leaves the shared GroupState's last_service at d,
\* whatever was stored before, also a later date.
C12_LastWrite ==
    [][\A i \in 1..Len(people) :
          RegisterStep(i) =>
              groups'[people[i].group_state].last_service
                  = people'[i].last_service]_vars

\* the group's date is earlier than the last service of one of its members:
\* a later date was overwritten by an earlier one
C12_Witness ==
    /\ pc = "ledger"
    /\ \E i \in 1..Len(people) :
          /\ people[i].last_service # None
          /\ groups[people[i].group_state].last_service # None
          /\ groups[people[i].group_state].last_service[1]
                < people[i].last_service[1]

\* configured group g holds a member whose composed name is `name`
InConfigGroup(name, g) ==
    \E m \in 1..Len(config.group[g].members) :
        FormatName(config.group[g].members[m].name, config.group[g].name)
            = name

\* persons i and j surely come from one configured group / from two (decided
\* by their names, which survive the shuffles)
SameConfigGroupByName(i, j) ==
    \E g \in 1..Len(config.group) :
        /\ InConfigGroup(people[i].name, g)
        /\ InConfigGroup(people[j].name, g)
        /\ \A h \in 1..Len(config.group) :
              h # g => /\ ~InConfigGroup(people[i].name, h)
                       /\ ~InConfigGroup(people[j].name, h)

OtherConfigGroupByName(i, j) ==
    \A g \in 1..Len(config.group) :
        ~(InConfigGroup(people[i].name, g) /\ InConfigGroup(people[j].name, g))

\* C13: Group isolation. Members of one configured group hold the same
\* GroupState and members of different configured groups hold different
\* ones, also when the groups have equal name and place; a registration by
\* a member of one group changes neither the last_service of another
\* group's GroupState nor the MaxDistanceInGroup component of its members.
C13_GroupIsolation ==
    /\ [](\A i, j \in 1..Len(people) :
             i < j =>
                 IF people[i].group_state = people[j].group_state
                 THEN ~OtherConfigGroupByName(i, j)
                 ELSE ~SameConfigGroupByName(i, j))
    /\ [][\A i \in 1..Len(people) :
             (pc = "place" /\ RegisterStep(i)) =>
                 \A j \in 1..Len(people) :
                     OtherConfigGroupByName(i, j) =>
                         /\ groups'[people[j].group_state]
                               = groups[people[j].group_state]
                         /\ MaxDistance(people', groups', j)
                               = MaxDistance(people, groups, j)]_vars

\* of two groups with equal name and place one has served and the other
\* still has no date
C13_Witness ==
    /\ assignments # <<>>
    /\ \E g, h \in 1..Len(config.group) :
          /\ g # h
          /\ config.group[g].name = config.group[h].name
          /\ config.group[g].place = config.group[h].place
          /\ groups[g].last_service # None
          /\ groups[h].last_service = None

\* the state of person i right after construction
Fresh(i) ==
    PersonState_new(people[i].name, people[i].place, people[i].group_state)

\* register_service(date, place) followed by unregister_service(date, place)
RegisterUnregister(p, date, place) ==
    unregister_service(register_service(p, date, place), date, place)

\* C14: Register/unregister inverse. For every person state (the fresh one
\* and every one reached by registrations among them), register_service(d, p)
\* followed by unregister_service(d, p) restores total_services,
\* weekday_counts, place_counts and different_place_services, leaves no
\* zero-valued entry in the maps, and leaves last_service_date None.
C14_RegisterUnregisterInverse ==
    \A i \in 1..Len(people), date \in LedgerDates, place \in PlaceUniverse :
        LET p == people[i]
            q == RegisterUnregister(p, date, place)
        IN  /\ q.total_services = p.total_services
            /\ q.weekday_counts = p.weekday_counts
            /\ q.place_counts = p.place_counts
            /\ q.different_place_services = p.different_place_services
            /\ \A k \in DOMAIN q.weekday_counts : q.weekday_counts[k] # 0
            /\ \A k \in DOMAIN q.place_counts : q.place_counts[k] # 0
            /\ q.last_service = None

\* the only member of a group is back in its fresh state after the pair,
\* while the group still remembers the registration
C14_Witness ==
    /\ pc = "ledger"
    /\ Len(config.group) = 2
    /\ \E i \in 1..Len(people) :
          /\ people[i] = Fresh(i)
          /\ groups[people[i].group_state].last_service # None

\* the dates unregistered: the ledger's dates and 2025-09-03, a Wednesday
\* that is never registered
ClampDates == LedgerDates \cup {739497}

\* C15: Clamping. No counter of a person is ever negative and no map holds
\* a value below 1; unregister_service on a fresh person changes nothing;
\* unregistering a (date, place) leaves the counts of all other places and
\* weekdays unchanged, and when the place or the weekday was never
\* registered it leaves that map unchanged, creating no entry.
C15_Clamping ==
    \A i \in 1..Len(people) :
        LET p == people[i]
        IN  /\ p.total_services >= 0
            /\ p.different_place_services >= 0
            /\ \A k \in DOMAIN p.weekday_counts : p.weekday_counts[k] >= 1
            /\ \A k \in DOMAIN p.place_counts : p.place_counts[k] >= 1
            /\ \A date \in ClampDates, place \in PlaceUniverse :
                  LET q == unregister_service(p, date, place)
                  IN  /\ p = Fresh(i) => q = p
                      /\ q.total_services >= 0
                      /\ q.different_place_services >= 0
                      /\ \A k \in PlaceUniverse \ {place} :
                            MapGet(q.place_counts, k) = MapGet(p.place_counts, k)
                      /\ \A k \in DOMAIN WeekdayNames :
                            WeekdayNames[k] # weekday(date) =>
                                MapGet(q.weekday_counts, WeekdayNames[k])
                                    = MapGet(p.weekday_counts, WeekdayNames[k])
                      /\ place \notin DOMAIN p.place_counts =>
                            q.place_counts = p.place_counts
                      /\ weekday(date) \notin DOMAIN p.weekday_counts =>
                            q.weekday_counts = p.weekday_counts

\* a person whose only registration was answered by an unregistration at a
\* place never registered: total_services is back at zero, the registered
\* place is still counted
C15_Witness ==
    /\ pc = "ledger"
    /\ \E i \in 1..Len(people) :
          /\ people[i].total_services = 0
          /\ people[i].different_place_services = 0
          /\ people[i].place_counts # EmptyMap

\* C16: unregister_service leaves the shared GroupState unchanged. In every
\* step that is not a registration the group cells are the same afterwards,
\* and so is the MaxDistanceInGroup key of every person.
C16_UnregisterKeepsGroup ==
    [][(pc = "ledger" /\ \A i \in 1..Len(people) : ~RegisterStep(i)) =>
          /\ groups' = groups
          /\ \A j \in 1..Len(people) :
                MaxDistance(people', groups', j) = MaxDistance(people, groups, j)]_vars

\* a group remembers a date that none of its members remembers any more
C16_Witness ==
    /\ pc = "ledger"
    /\ \E g \in 1..Len(groups) :
          /\ groups[g].last_service # None
          /\ \A j \in 1..Len(people) :
                people[j].group_state = g =>
                    /\ people[j].last_service = None
                    /\ people[j].total_services = 0

\* the key of p for a slot at `place` under DifferentPlaceServices alone
DifferentPlaceKey(p, place) ==
    sort_key(p, groups, 739495, place,
             [sort |-> <<"SortByDifferentPlaceServices">>, filter |-> <<>>])

\* C17: Own-place dominance. With DifferentPlaceServices as the sole sort
\* rule, for a slot at place p every person whose home place is p has a
\* strictly smaller key than every person whose home place is not p,
\* whatever the different_place_services of the two.
C17_OwnPlaceDominance ==
    \A i, j \in 1..Len(people), place \in PlaceUniverse :
        (people[i].place = place /\ people[j].place # place) =>
            KeyLess(DifferentPlaceKey(people[i], place),
                    DifferentPlaceKey(people[j], place))

\* the home person has off-place services, the other person has none
C17_Witness ==
    /\ pc = "ledger"
    /\ \E i, j \in 1..Len(people) :
          /\ people[i].place # people[j].place
          /\ people[i].different_place_services >= 2
          /\ people[j].different_place_services = 0

\* C18 as stated: for a slot at the home place of both, the person with
\* more different_place_services has the strictly smaller key.
C18_MoreOffPlaceSmallerKey ==
    \A i, j \in 1..Len(people) :
        (/\ people[i].place = people[j].place
         /\ people[i].different_place_services
               > people[j].different_place_services) =>
            KeyLess(DifferentPlaceKey(people[i], people[i].place),
                    DifferentPlaceKey(people[j], people[j].place))

\* C18 (amended): for a slot at the person's own home place the
\* DifferentPlaceServices component is negative and becomes less negative
\* as different_place_services grows: among two home-place candidates the
\* one with more off-place services never has the smaller key; the keys
\* are equal for 0 and 1 off-place services and the key of the one with
\* fewer is strictly smaller from 1 upward.
C18_MoreOffPlaceLargerKey ==
    \A i, j \in 1..Len(people) :
        LET ki == DifferentPlaceKey(people[i], people[i].place)
            kj == DifferentPlaceKey(people[j], people[j].place)
        IN  /\ I64Less(ki[1], I64(0))
            /\ (/\ people[i].place = people[j].place
                /\ people[i].different_place_services
                      > people[j].different_place_services) =>
                   /\ KeyLessEq(kj, ki)
                   /\ people[j].different_place_services >= 1 =>
                         KeyLess(kj, ki)
                   /\ people[i].different_place_services <= 1 => kj = ki

\* two persons of the same home place with 2 and 1 off-place services
C18_Witness ==
    /\ pc = "ledger"
    /\ \E i, j \in 1..Len(people) :
          /\ people[i].place = people[j].place
          /\ people[i].different_place_services = 2
          /\ people[j].different_place_services = 1

----------------------------------------------------------------------------
(* Registrations over two consecutive weeks, for the LastService component *)

\* 2025-08-29 (Fri) .. 2025-09-11 (Thu)
BucketDates == 739492..739505

BucketInit ==
    /\ dates = <<>>
    /\ config \in LedgerConfigs
    /\ people = create_people(config.group, 1)
    /\ groups = create_groups(config.group)
    /\ assignments = <<>>
    /\ date_idx = 1
    /\ place_idx = 1
    /\ pc = "bucket"
    /\ AppState_default

\* PersonState::register_service(&mut self, date, place) at the home place
RegisterAtDate ==
    /\ pc = "bucket"
    /\ TotalServices(people) < MaxServices
    /\ \E i \in 1..Len(people), date \in BucketDates :
          /\ people' = [people EXCEPT
                           ![i] = register_service(@, date, people[i].place)]
          /\ groups' = register_service_group(groups, people[i], date)
    /\ UNCHANGED <<dates, config, assignments, date_idx, place_idx, pc>>
    /\ UNCHANGED gui_vars

BucketNext == RegisterAtDate

BucketSpec == BucketInit /\ [][BucketNext]_vars

\* the LastService component of p
LastServiceKey(p) ==
    sort_key(p, groups, 739495, "A",
             [sort |-> <<"SortByLastService">>, filter |-> <<>>])[1]

\* C19 as stated: the LastService component of a served person is the day
\* number of the last service divided by 7, rounded down; two last-service
\* dates 3 days apart give the same component, and two dates 10 days apart
\* give different components, the earlier one smaller.
C19_WeeklyBucketing ==
    \A i, j \in 1..Len(people) :
        (people[i].last_service # None /\ people[j].last_service # None) =>
            LET di == people[i].last_service[1]
                dj == people[j].last_service[1]
                ki == LastServiceKey(people[i])
                kj == LastServiceKey(people[j])
            IN  /\ ki = I64(num_days_from_ce(di) \div 7)
                /\ dj = di + 3 => ki = kj
                /\ dj = di + 10 => (ki # kj /\ I64Less(ki, kj))

\* C19 (amended): the LastService component of a served person is the day
\* number of the last service (counted from 0001-01-01 as day 1) divided
\* by 7, rounded down; two last-service dates 3 days apart give the same
\* component when the earlier one is a Sunday, Monday, Tuesday or Wednesday
\* and components that differ by exactly one, the earlier date smaller,
\* otherwise; two dates 10 days apart give different components with the
\* earlier date smaller.
C19_WeeklyBucketsFromSunday ==
    \A i, j \in 1..Len(people) :
        (people[i].last_service # None /\ people[j].last_service # None) =>
            LET di == people[i].last_service[1]
                dj == people[j].last_service[1]
                ki == LastServiceKey(people[i])
                kj == LastServiceKey(people[j])
            IN  /\ ki = I64(num_days_from_ce(di) \div 7)
                /\ dj = di + 3 =>
                      IF weekday(di) \in {"Sun", "Mon", "Tue", "Wed"}
                      THEN kj = ki
                      ELSE kj = I64(num_days_from_ce(di) \div 7 + 1)
                              /\ I64Less(ki, kj)
                /\ dj = di + 10 => (ki # kj /\ I64Less(ki, kj))

\* last services on Friday and on the Monday after it, in different buckets
C19_Witness ==
    /\ pc = "bucket"
    /\ \E i, j \in 1..Len(people) :
          /\ people[i].last_service = Some(739492)
          /\ people[j].last_service = Some(739495)
          /\ LastServiceKey(people[i]) # LastServiceKey(people[j])

----------------------------------------------------------------------------
(* Reference values of the sort_key components *)

\* a slot is about to be filled
SlotPending == pc = "place" /\ place_idx <= Len(Places)

\* C20: sort_key returns exactly one integer per rule of rules.sort, in
\* configured order, each equal to its reference value: LeastServices =
\* total_services; OwnPlace = 0 if the slot's place is the home place, else
\* 1; LessServicesAtSameWeekday = weekday_counts of the slot date's weekday
\* (0 if absent); LastService = i64::MIN if the person never served;
\* MaxDistanceInGroup = day number of the group date, or i64::MIN;
\* FilterSamePlace = 0. Computing the keys changes no state: a step that
\* fills a slot changes only the person it registers and that person's
\* group cell, and a step that finds no candidate changes nothing.
C20_SortKeyReference ==
    /\ [](SlotPending =>
            \A i \in 1..Len(people) :
                LET p    == people[i]
                    key  == SlotKey(i)
                    date == dates[date_idx]
                    g    == groups[p.group_state]
                IN  /\ Len(key) = Len(config.rules.sort)
                    /\ \A r \in 1..Len(config.rules.sort) :
                          LET rule == config.rules.sort[r]
                          IN  /\ rule = "SortByLeastServices" =>
                                    key[r] = I64(p.total_services)
                              /\ rule = "SortByOwnPlace" =>
                                    key[r] = IF Places[place_idx] = p.place
                                             THEN I64(0) ELSE I64(1)
                              /\ rule = "SortByLessServicesAtSameWeekday" =>
                                    key[r] =
                                       IF weekday(date) \in DOMAIN p.weekday_counts
                                       THEN I64(p.weekday_counts[weekday(date)])
                                       ELSE I64(0)
                              /\ (rule = "SortByLastService"
                                    /\ p.last_service = None) =>
                                    key[r] = I64_MIN
                              /\ rule = "SortByMaxDistanceInGroup" =>
                                    key[r] = IF g.last_service = None
                                             THEN I64_MIN
                                             ELSE I64(g.last_service[1])
                              /\ rule = "FilterSamePlace" => key[r] = I64(0))
    /\ [][SlotPending =>
            IF Len(assignments') = Len(assignments)
            THEN people' = people /\ groups' = groups
            ELSE /\ \A i \in 1..Len(people) :
                       i # Registered => people'[i] = people[i]
                 /\ \A g \in 1..Len(groups) :
                       g # people[Registered].group_state =>
                           groups'[g] = groups[g]]_vars

\* a slot is pending under the list of all six sort rules, with one person
\* who has served and one who has not
C20_Witness ==
    /\ SlotPending
    /\ Len(config.rules.sort) = 6
    /\ \E i, j \in 1..Len(people) :
          /\ people[i].total_services >= 1
          /\ people[i].last_service # None
          /\ people[j].last_service = None
          /\ SlotKey(i) # SlotKey(j)

----------------------------------------------------------------------------
(* Manual edits of a generated schedule, src/gui/app.rs, src/gui/state.rs,
   src/gui/assignment.rs *)

\* people.iter().position(|p| p.name() == name); 0 stands for None
RECURSIVE PositionFrom(_, _, _)
PositionFrom(ps, name, i) ==
    IF i > Len(ps) THEN 0
    ELSE IF ps[i].name = name THEN i
    ELSE PositionFrom(ps, name, i + 1)

position(ps, name) == PositionFrom(ps, name, 1)

\* the loop of Message::ScheduleGenerated: every assignment is registered
\* with the first person of its name; the result is <<people, groups>>
RECURSIVE RegisterAssignments(_, _, _, _)
RegisterAssignments(ps, gs, as, k) ==
    IF k > Len(as) THEN <<ps, gs>>
    ELSE LET i == position(ps, as[k].person)
         IN  IF i = 0 THEN RegisterAssignments(ps, gs, as, k + 1)
             ELSE RegisterAssignments(
                      [ps EXCEPT ![i] =
                          register_service(@, as[k].date, as[k].place)],
                      register_service_group(gs, ps[i], as[k].date),
                      as, k + 1)

\* get_cell_info: the person shown in the cell of (date, place), the one of
\* the last assignment of that date and place; <<>> stands for None
CellPerson(as, date, place) ==
    LET hits == SelectSeq(as, LAMBDA a : a.date = date /\ a.place = place)
    IN  IF hits = <<>> THEN None ELSE Some(hits[Len(hits)].person)

\* the swap of gui.rs: the assignments are edited, the people are not
swap_assignments_no_ledger(as, ps, gs, date1, place1, person1, date2, place2, person2) ==
    LET is1(a) == a.date = date1 /\ a.place = place1
        is2(a) == ~is1(a) /\ a.date = date2 /\ a.place = place2
        found1 == \E k \in 1..Len(as) : is1(as[k])
        found2 == \E k \in 1..Len(as) : is2(as[k])
    IN  IF ~(found1 /\ found2)
        THEN [found |-> FALSE, assignments |-> as, people |-> ps, groups |-> gs]
        ELSE [found |-> TRUE,
              assignments |->
                  [k \in 1..Len(as) |->
                      IF is1(as[k]) THEN [as[k] EXCEPT !.person = person2]
                      ELSE IF is2(as[k]) THEN [as[k] EXCEPT !.person = person1]
                      ELSE as[k]],
              people |-> ps, groups |-> gs]

\* the swap of gui.rs: a slot is edited as soon as it is found
swap_assignments_eager(as, ps, gs, date1, place1, person1, date2, place2, person2) ==
    LET is1(a) == a.date = date1 /\ a.place = place1
        is2(a) == ~is1(a) /\ a.date = date2 /\ a.place = place2
        found1 == \E k \in 1..Len(as) : is1(as[k])
        found2 == \E k \in 1..Len(as) : is2(as[k])
    IN  [found |-> found1 /\ found2,
         assignments |->
             [k \in 1..Len(as) |->
                 IF is1(as[k]) THEN [as[k] EXCEPT !.person = person2]
                 ELSE IF is2(as[k]) THEN [as[k] EXCEPT !.person = person1]
                 ELSE as[k]],
         people |-> ps, groups |-> gs]

\* a swap that moves the ledger of person1 only
swap_assignments_one_ledger(as, ps, gs, date1, place1, person1, date2, place2, person2) ==
    LET is1(a) == a.date = date1 /\ a.place = place1
        is2(a) == ~is1(a) /\ a.date = date2 /\ a.place = place2
        found1 == \E k \in 1..Len(as) : is1(as[k])
        found2 == \E k \in 1..Len(as) : is2(as[k])
    IN  IF ~(found1 /\ found2)
        THEN [found |-> FALSE, assignments |-> as, people |-> ps, groups |-> gs]
        ELSE
          LET as2  == [k \in 1..Len(as) |->
                         IF is1(as[k]) THEN [as[k] EXCEPT !.person = person2]
                         ELSE IF is2(as[k])
                              THEN [as[k] EXCEPT !.person = person1]
                         ELSE as[k]]
              idx1 == position(ps, person1)
          IN  IF idx1 = 0
              THEN [found |-> TRUE, assignments |-> as2,
                    people |-> ps, groups |-> gs]
              ELSE
                LET ps1 == [ps EXCEPT
                               ![idx1] = unregister_service(@, date1, place1)]
                    ps3 == [ps1 EXCEPT
                               ![idx1] = register_service(@, date2, place2)]
                    gs3 == register_service_group(gs, ps1[idx1], date2)
                IN  [found |-> TRUE, assignments |-> as2,
                     people |-> ps3, groups |-> gs3]

\* swap_assignments; the result holds the returned flag and the slices
\* after the call
swap_assignments(as, ps, gs, date1, place1, person1, date2, place2, person2) ==
    LET is1(a) == a.date = date1 /\ a.place = place1
        is2(a) == ~is1(a) /\ a.date = date2 /\ a.place = place2
        found1 == \E k \in 1..Len(as) : is1(as[k])
        found2 == \E k \in 1..Len(as) : is2(as[k])
    IN  IF ~(found1 /\ found2)
        THEN [found |-> FALSE, assignments |-> as, people |-> ps, groups |-> gs]
        ELSE
          LET as2  == [k \in 1..Len(as) |->
                         IF is1(as[k]) THEN [as[k] EXCEPT !.person = person2]
                         ELSE IF is2(as[k])
                              THEN [as[k] EXCEPT !.person = person1]
                         ELSE as[k]]
              idx1 == position(ps, person1)
              idx2 == position(ps, person2)
          IN  IF idx1 = 0 \/ idx2 = 0
              THEN [found |-> TRUE, assignments |-> as2,
                    people |-> ps, groups |-> gs]
              ELSE
                LET ps1 == [ps EXCEPT
                               ![idx1] = unregister_service(@, date1, place1)]
                    ps2 == [ps1 EXCEPT
                               ![idx2] = unregister_service(@, date2, place2)]
                    ps3 == [ps2 EXCEPT
                               ![idx1] = register_service(@, date2, place2)]
                    gs3 == register_service_group(gs, ps2[idx1], date2)
                    ps4 == [ps3 EXCEPT
                               ![idx2] = register_service(@, date1, place1)]
                    gs4 == register_service_group(gs3, ps3[idx2], date1)
                IN  [found |-> TRUE, assignments |-> as2,
                     people |-> ps4, groups |-> gs4]

\* 2025-09-01 (Mon), 2025-09-03 (Wed), 2025-09-10 (Wed), ascending as
\* get_weekdays returns them
SwapDates == <<739495, 739497, 739504>>

\* the layout of test/config.toml with two places, with and without an
\* excepted date, ranked by LeastServices or not at all
SwapConfigs ==
    { [ dates  |-> [exceptions |-> e],
        places |-> [places |-> <<"A", "B">>],
        group  |-> << [name |-> <<"M">>, place |-> "A",
                       members |-> <<Member("a"), Member("b")>>],
                      [name |-> <<"D">>, place |-> "B",
                       members |-> <<Member("c")>>] >>,
        rules  |-> [sort |-> s, filter |-> <<>>] ] :
      e \in {<<>>, <<739497>>}, s \in {<<>>, <<"SortByLeastServices">>} }

SwapInit ==
    /\ dates = SwapDates
    /\ config \in SwapConfigs
    /\ people = create_people(config.group, 1)
    /\ groups = create_groups(config.group)
    /\ assignments = <<>>
    /\ date_idx = 1
    /\ place_idx = 1
    /\ pc = "date"
    /\ AppState_default

\* Message::ScheduleGenerated(Ok(assignments)): the people are created anew
\* from the config and every assignment is registered
ScheduleGenerated ==
    /\ pc = "done"
    /\ LET r == RegisterAssignments(create_people(config.group, 1),
                                    create_groups(config.group),
                                    assignments, 1)
       IN  /\ people' = r[1]
           /\ groups' = r[2]
    /\ pc' = "edit"
    /\ UNCHANGED <<dates, config, assignments, date_idx, place_idx>>
    /\ UNCHANGED gui_vars

\* the names a caller can pass for a slot: the person shown in its cell, or
\* any person when the cell is empty
SlotPersons(date, place) ==
    IF CellPerson(assignments, date, place) # None
    THEN {CellPerson(assignments, date, place)[1]}
    ELSE {people[i].name : i \in 1..Len(people)}

\* the slots a caller can name
SwapSlots == {<<dates[k], pl>> : k \in 1..Len(dates), pl \in PlaceUniverse}

\* handle_cell_click on a second cell, and direct calls that name an empty
\* slot: swap_assignments(assignments, people, ...)
SwapAssignments ==
    /\ pc = "edit"
    /\ \E s1, s2 \in SwapSlots :
          /\ s1 # s2
          /\ \E n1 \in SlotPersons(s1[1], s1[2]),
                n2 \in SlotPersons(s2[1], s2[2]) :
                LET r == swap_assignments(assignments, people, groups,
                                          s1[1], s1[2], n1, s2[1], s2[2], n2)
                IN  /\ assignments' = r.assignments
                    /\ people' = r.people
                    /\ groups' = r.groups
    /\ UNCHANGED <<dates, config, date_idx, place_idx, pc>>
    /\ UNCHANGED gui_vars

SwapNext ==
    \/ SkipException
    \/ Shuffle
    \/ FillPlace
    \/ NextDate
    \/ Return
    \/ ScheduleGenerated
    \/ SwapAssignments

SwapSpec == SwapInit /\ [][SwapNext]_vars

----------------------------------------------------------------------------
(* Properties of the manual edits *)

\* the positions of the assignments naming `name`
HeldBy(as, name) == {k \in 1..Len(as) : as[k].person = name}

\* the counters of p equal the counts derived from the assignment list
LedgerAgrees(as, p) ==
    LET held == HeldBy(as, p.name)
    IN  /\ p.total_services = Cardinality(held)
        /\ \A w \in 1..Len(WeekdayNames) :
              MapGet(p.weekday_counts, WeekdayNames[w])
                  = Cardinality({k \in held :
                                    weekday(as[k].date) = WeekdayNames[w]})
        /\ DOMAIN p.place_counts \subseteq PlaceUniverse
        /\ \A pl \in PlaceUniverse :
              MapGet(p.place_counts, pl)
                  = Cardinality({k \in held : as[k].place = pl})
        /\ p.different_place_services
              = Cardinality({k \in held : as[k].place # p.place})

Agree(as, ps) == \A i \in 1..Len(ps) : LedgerAgrees(as, ps[i])

\* C21: Swap keeps ledgers consistent. Applied to two distinct existing
\* slots held by person1 and person2, on assignments and people that agree,
\* swap_assignments returns true, slot 1 then names person2 and slot 2
\* names person1, every other assignment and every other person's ledger is
\* unchanged, and the total_services, weekday_counts, place_counts and
\* different_place_services of person1 and person2 equal the counts
\* derived from the edited assignment list.
C21_SwapKeepsLedgers ==
    (pc = "edit" /\ Agree(assignments, people)) =>
        \A s1, s2 \in SwapSlots :
            (/\ s1 # s2
             /\ CellPerson(assignments, s1[1], s1[2]) # None
             /\ CellPerson(assignments, s2[1], s2[2]) # None) =>
                LET n1 == CellPerson(assignments, s1[1], s1[2])[1]
                    n2 == CellPerson(assignments, s2[1], s2[2])[1]
                    r  == swap_assignments(assignments, people, groups,
                                           s1[1], s1[2], n1, s2[1], s2[2], n2)
                IN  /\ r.found
                    /\ Len(r.assignments) = Len(assignments)
                    /\ \A k \in 1..Len(assignments) :
                          r.assignments[k] =
                             IF <<assignments[k].date, assignments[k].place>> = s1
                             THEN [assignments[k] EXCEPT !.person = n2]
                             ELSE IF <<assignments[k].date,
                                       assignments[k].place>> = s2
                             THEN [assignments[k] EXCEPT !.person = n1]
                             ELSE assignments[k]
                    /\ Len(r.people) = Len(people)
                    /\ \A i \in 1..Len(people) :
                          IF people[i].name \in {n1, n2}
                          THEN LedgerAgrees(r.assignments, r.people[i])
                          ELSE r.people[i] = people[i]

\* after an edit: the ledgers agree with the assignments, and a person's
\* last_service is not the latest date the person holds
C21_Witness ==
    /\ pc = "edit"
    /\ Agree(assignments, people)
    /\ \E i \in 1..Len(people) :
          /\ people[i].last_service # None
          /\ \E k \in HeldBy(assignments, people[i].name) :
                people[i].last_service[1] < assignments[k].date

\* C22: Failed swap changes nothing. If (date1, place1) or (date2, place2)
\* has no assignment, swap_assignments returns false and leaves every
\* assignment, every PersonState and every GroupState as before, whatever
\* the names passed.
C22_FailedSwapNoOp ==
    pc = "edit" =>
        \A s1, s2 \in SwapSlots :
            (\/ CellPerson(assignments, s1[1], s1[2]) = None
             \/ CellPerson(assignments, s2[1], s2[2]) = None) =>
                \A i1, i2 \in 1..Len(people) :
                    LET r == swap_assignments(assignments, people, groups,
                                              s1[1], s1[2], people[i1].name,
                                              s2[1], s2[2], people[i2].name)
                    IN  /\ ~r.found
                        /\ r.assignments = assignments
                        /\ r.people = people
                        /\ r.groups = groups

\* an edited schedule with an empty slot and a filled one
C22_Witness ==
    /\ pc = "edit"
    /\ \E s1, s2 \in SwapSlots :
          /\ CellPerson(assignments, s1[1], s1[2]) = None
          /\ CellPerson(assignments, s2[1], s2[2]) # None
    /\ \E i \in 1..Len(people) : people[i].total_services >= 2

\* the dates of the assignments held by members of group cell g
GroupDates(as, ps, g) ==
    {as[k].date : k \in {x \in 1..Len(as) :
                            \E i \in 1..Len(ps) :
                                /\ ps[i].group_state = g
                                /\ ps[i].name = as[x].person}}

\* C25: GroupState.last_service_date is the last date any member of the
\* group served. After a create_schedule run over ascending dates and after
\* any sequence of successful swap_assignments edits, each group's
\* last_service_date is the latest date on which a member of the group
\* holds an assignment (None if no member holds one).
C25_GroupDateIsLatest ==
    pc \in {"done", "edit"} =>
        \A g \in 1..Len(groups) :
            LET held == GroupDates(assignments, people, g)
            IN  IF held = {} THEN groups[g].last_service = None
                ELSE /\ groups[g].last_service # None
                     /\ groups[g].last_service[1] \in held
                     /\ \A d \in held : d <= groups[g].last_service[1]

----------------------------------------------------------------------------
(* #[derive(Clone)] of PersonState, src/schedule/person_state.rs *)

CloneInit ==
    /\ dates = <<>>
    /\ config \in LedgerConfigs
    /\ people = create_people(config.group, 1)
    /\ groups = create_groups(config.group)
    /\ assignments = <<>>
    /\ date_idx = 1
    /\ place_idx = 1
    /\ pc = "clone"
    /\ AppState_default

\* the number of people create_people made
CreatedPeople == Len(create_people(config.group, 1))

\* a clone that copies the GroupState into a cell of its own
ClonePerson_deep ==
    /\ pc = "clone"
    /\ Len(people) = CreatedPeople
    /\ \E i \in 1..Len(people) :
          /\ people' = Append(people,
                              [people[i] EXCEPT !.group_state = Len(groups) + 1])
          /\ groups' = Append(groups, groups[people[i].group_state])
    /\ UNCHANGED <<dates, config, assignments, date_idx, place_idx, pc>>
    /\ UNCHANGED gui_vars

\* PersonState::clone(&self): every field is cloned, the Rc<RefCell<..>>
\* by Rc::clone, which points to the same cell
ClonePerson ==
    /\ pc = "clone"
    /\ Len(people) = CreatedPeople
    /\ \E i \in 1..Len(people) : people' = Append(people, people[i])
    /\ UNCHANGED <<dates, config, groups, assignments, date_idx, place_idx, pc>>
    /\ UNCHANGED gui_vars

\* PersonState::register_service on an original or on the clone
CloneRegister ==
    /\ pc = "clone"
    /\ TotalServices(people) < MaxServices
    /\ \E i \in 1..Len(people), date \in LedgerDates, place \in PlaceUniverse :
          /\ people' = [people EXCEPT ![i] = register_service(@, date, place)]
          /\ groups' = register_service_group(groups, people[i], date)
    /\ UNCHANGED <<dates, config, assignments, date_idx, place_idx, pc>>
    /\ UNCHANGED gui_vars

CloneNext == ClonePerson \/ CloneRegister

CloneSpec == CloneInit /\ [][CloneNext]_vars

\* C23: Shared by reference. Cloning a PersonState makes no new GroupState:
\* the clone points to the cell of the original. A register_service on the
\* clone or on the original shows in the MaxDistanceInGroup component of
\* the other and of all group-mates, while the counters of every other
\* person, the clone or the original among them, stay as they are.
C23_CloneSharesGroup ==
    /\ [](\A i, j \in 1..Len(people) :
             people[i].name = people[j].name =>
                 /\ people[i].group_state = people[j].group_state
                 /\ MaxDistance(people, groups, i) = MaxDistance(people, groups, j))
    /\ [][Len(people') = Len(people) + 1 =>
             /\ groups' = groups
             /\ \E i \in 1..Len(people) : people'[Len(people')] = people[i]]_vars
    /\ [][\A i \in 1..Len(people) :
             (Len(people') = Len(people) /\ RegisterStep(i)) =>
                 \A j \in 1..Len(people) :
                     /\ people[j].group_state = people[i].group_state =>
                           MaxDistance(people', groups', j)
                               = I64(people'[i].last_service[1])
                     /\ j # i => people'[j] = people[j]]_vars

\* a clone and its original: one has served, the other has not and sees
\* the date in its MaxDistanceInGroup component
C23_Witness ==
    /\ pc = "clone"
    /\ \E i, j \in 1..Len(people) :
          /\ i # j
          /\ people[i].name = people[j].name
          /\ people[i].total_services >= 1
          /\ people[j].total_services = 0
          /\ people[j].last_service = None
          /\ MaxDistance(people, groups, j) = I64(people[i].last_service[1])

----------------------------------------------------------------------------
(* Order of selection in create_schedule *)

\* person c may take the pending slot
IsCandidate(c) == ~FilterActive \/ people[c].place = Places[place_idx]

\* C26: Tie-break. The people are shuffled once per non-excepted date, on
\* entry into the loop over the places, and the steps of that loop keep the
\* order; the person chosen for a slot has a key strictly smaller than
\* every candidate before it in that order and not greater than any
\* candidate behind it: among candidates of equal minimal key the first in
\* the shuffled order is chosen.
C26_FirstMinimum ==
    /\ [][(pc = "date" /\ pc' = "place") =>
             /\ ~Excepted(dates[date_idx])
             /\ people' \in Shuffles(people)]_vars
    /\ [][pc = "place" =>
             /\ Len(people') = Len(people)
             /\ \A i \in 1..Len(people) :
                   people'[i] # people[i] =>
                       people'[i] = register_service(people[i],
                                                     dates[date_idx],
                                                     Places[place_idx])]_vars
    /\ [][Len(assignments') = Len(assignments) + 1 =>
             /\ IsCandidate(Registered)
             /\ assignments'[Len(assignments')].person = people[Registered].name
             /\ \A c \in 1..Len(people) :
                   IsCandidate(c) =>
                       IF c < Registered
                       THEN KeyLess(SlotKey(Registered), SlotKey(c))
                       ELSE KeyLessEq(SlotKey(Registered), SlotKey(c))]_vars

\* without sort rules all keys tie: the first of an order that is not the
\* order of creation was chosen for the first place of the date
C26_Witness ==
    /\ pc = "place"
    /\ place_idx = 2
    /\ config.rules.sort = <<>>
    /\ ~FilterActive
    /\ Len(people) >= 2
    /\ people[1].name # create_people(config.group, 1)[1].name
    /\ assignments # <<>>
    /\ assignments[Len(assignments)] =
          [date |-> dates[date_idx], place |-> Places[1],
           person |-> people[1].name]

\* the first candidate, in the order of `people`, whose key no candidate
\* undercuts; 0 when there is no candidate
FirstMinimum ==
    LET cs == {c \in 1..Len(people) : IsCandidate(c)}
        ms == {c \in cs : \A d \in cs : KeyLessEq(SlotKey(c), SlotKey(d))}
    IN  IF cs = {} THEN 0 ELSE CHOOSE c \in ms : \A d \in ms : c <= d

\* C24: Determinism given the shuffle. Every step of create_schedule other
\* than the per-date shuffle has one outcome, fixed by the state before it,
\* and the shuffle changes only the order of the people: runs on the same
\* dates and config with the same permutations emit the same assignments
\* and end with the same ledgers and group dates.
C24_DeterministicGivenShuffle ==
    [][IF pc = "date" /\ date_idx > Len(dates)
       THEN /\ pc' = "done"
            /\ UNCHANGED <<dates, config, people, groups, assignments,
                           date_idx, place_idx>>
       ELSE IF pc = "date" /\ Excepted(dates[date_idx])
       THEN /\ date_idx' = date_idx + 1
            /\ UNCHANGED <<dates, config, people, groups, assignments,
                           place_idx, pc>>
       ELSE IF pc = "date"
       THEN /\ people' \in Shuffles(people)
            /\ place_idx' = 1
            /\ pc' = "place"
            /\ UNCHANGED <<dates, config, groups, assignments, date_idx>>
       ELSE IF pc = "place" /\ place_idx > Len(Places)
       THEN /\ date_idx' = date_idx + 1
            /\ pc' = "date"
            /\ UNCHANGED <<dates, config, people, groups, assignments,
                           place_idx>>
       ELSE /\ pc = "place"
            /\ place_idx' = place_idx + 1
            /\ UNCHANGED <<dates, config, date_idx, pc>>
            /\ LET w == FirstMinimum
               IN  IF w = 0
                   THEN UNCHANGED <<people, groups, assignments>>
                   ELSE /\ people' =
                              [people EXCEPT
                                 ![w] = register_service(@, dates[date_idx],
                                                         Places[place_idx])]
                        /\ groups' =
                              [groups EXCEPT
                                 ![people[w].group_state] =
                                     [last_service |-> Some(dates[date_idx])]]
                        /\ assignments' =
                              Append(assignments,
                                     [date   |-> dates[date_idx],
                                      place  |-> Places[place_idx],
                                      person |-> people[w].name])]_vars

\* a run has returned after two shuffles and a choice between candidates
\* of equal key
C24_Witness ==
    /\ pc = "done"
    /\ Len(people) >= 2
    /\ Len(dates) = 2
    /\ dates[1] # dates[2]
    /\ config.dates.exceptions = <<>>
    /\ config.rules.sort = <<"SortByLeastServices">>
    /\ Len(assignments) >= 3

----------------------------------------------------------------------------
(* Termination of create_schedule *)

\* configurations with and without places, people, exceptions, sort rules
\* and the filter
TerminationConfigs ==
    { c \in Configs :
        /\ c.places.places \in {<<>>, <<"A", "B">>}
        /\ \A g \in 1..Len(c.group) : Len(c.group[g].members) = 1
        /\ c.rules.sort \in {<<>>, <<"SortByLeastServices">>} }

TerminationInit ==
    /\ dates \in DateLists
    /\ config \in TerminationConfigs
    /\ people = create_people(config.group, 1)
    /\ groups = create_groups(config.group)
    /\ assignments = <<>>
    /\ date_idx = 1
    /\ place_idx = 1
    /\ pc = "date"
    /\ AppState_default

\* the loops of create_schedule run to their end: no step waits for
\* anything
FairSpec == TerminationInit /\ [][Next]_vars /\ WF_vars(Next)

\* C27: create_schedule terminates for every input: every run comes to its
\* return, with at most (number of dates) x (number of places) selections
\* made, and with zero dates, zero places or zero people it returns no
\* assignment and people whose ledgers are untouched.
C27_Terminates ==
    <>(/\ pc = "done"
       /\ Len(assignments) <= Len(dates) * Len(Places)
       /\ TotalServices(people) = Len(assignments)
       /\ (dates = <<>> \/ Places = <<>> \/ people = <<>>) =>
             /\ assignments = <<>>
             /\ groups = create_groups(config.group)
             /\ \A i \in 1..Len(people) : people[i] = Fresh(i))

\* a run over two dates and two places has returned with every slot
\* filled
C27_Witness ==
    /\ pc = "done"
    /\ Len(dates) = 2
    /\ Len(Places) = 2
    /\ Len(assignments) = 4

----------------------------------------------------------------------------
(* Balance under LeastServices *)

LeastServicesFirst ==
    /\ config.rules.sort # <<>>
    /\ config.rules.sort[1] = "SortByLeastServices"
    /\ ~FilterActive

ServedDates ==
    SelectSeq(dates, LAMBDA d : ~Excepted(d))

\* C28: when SortByLeastServices is the first sort rule and FilterSamePlace
\* is not active, after every assignment of a run the totals of any two
\* people differ by at most 1; with two people, one place and two served
\* dates the run ends with one service each and the second date goes to
\* the person who was not chosen on the first.
C28_Balance ==
    LeastServicesFirst =>
        /\ \A i, j \in 1..Len(people) :
                people[i].total_services - people[j].total_services <= 1
        /\ (/\ pc = "done"
            /\ Len(people) = 2
            /\ Len(Places) = 1
            /\ Len(ServedDates) = 2) =>
                /\ Len(assignments) = 2
                /\ people[1].total_services = 1
                /\ people[2].total_services = 1
                /\ assignments[2].person # assignments[1].person

\* a run with two people, one place and two served dates has returned
C28_Witness ==
    /\ LeastServicesFirst
    /\ pc = "done"
    /\ Len(people) = 2
    /\ Len(Places) = 1
    /\ Len(ServedDates) = 2
    /\ Len(assignments) = 2

----------------------------------------------------------------------------
(* The last service date after unregister_service (checked under LedgerSpec) *)

\* C29: unregister_service(date, place) sets last_service to None exactly
\* when it equals the date and otherwise leaves it unchanged; the date is
\* never recomputed from the services that remain, so a person with
\* total_services > 0 and no last service date gets the never-served
\* LastService component, i64::MIN.
C29_UnregisterLastService ==
    \A i \in 1..Len(people) :
        LET p == people[i]
        IN  /\ (p.total_services > 0 /\ p.last_service = None) =>
                    LastServiceKey(p) = I64_MIN
            /\ \A date \in ClampDates, place \in PlaceUniverse :
                  LET q == unregister_service(p, date, place)
                  IN  /\ (p.last_service = Some(date)) =>
                            q.last_service = None
                      /\ (p.last_service # Some(date)) =>
                            q.last_service = p.last_service
                      /\ (q.total_services > 0 /\ p.last_service = Some(date)) =>
                            LastServiceKey(q) = I64_MIN

\* a person registered twice and unregistered at the later date: one
\* service is left and no last service date
C29_Witness ==
    /\ pc = "ledger"
    /\ \E i \in 1..Len(people) :
          /\ people[i].total_services > 0
          /\ people[i].last_service = None
          /\ LastServiceKey(people[i]) = I64_MIN

----------------------------------------------------------------------------
(* FilterSamePlace among the sort rules *)

\* rules.sort without its FilterSamePlace entries
WithoutFilterEntry(sort) ==
    SelectSeq(sort, LAMBDA r : r # "FilterSamePlace")

\* the person create_schedule chooses for the pending slot when the sort
\* rules are `sort`: a position in `people`, 0 when nobody is a candidate
ChosenWith(sort) ==
    LET date     == dates[date_idx]
        place_id == Places[place_idx]
        keys     == [i \in 1..Len(people) |->
                       sort_key(people[i], groups, date, place_id,
                                [sort |-> sort, filter |-> config.rules.filter])]
        sorted   == sort_by_key(Candidates(people, place_id), keys)
    IN  IF sorted = <<>> THEN 0 ELSE first_mut(sorted)

FilterOnlySorted ==
    /\ Contains(config.rules.sort, "FilterSamePlace")
    /\ ~Contains(config.rules.filter, "FilterSamePlace")

\* C30: FilterSamePlace in rules.sort and absent from rules.filter neither
\* restricts the candidates nor changes the ranking: for every slot every
\* person is a candidate and the person chosen is the one chosen with that
\* entry removed from rules.sort, on the same order of the people; with
\* FilterSamePlace in rules.filter the candidates are the people of the
\* place.
C30_FilterInSortNoOp ==
    /\ [](SlotPending =>
            /\ FilterOnlySorted =>
                  /\ Candidates(people, Places[place_idx])
                        = [i \in 1..Len(people) |-> i]
                  /\ ChosenWith(config.rules.sort)
                        = ChosenWith(WithoutFilterEntry(config.rules.sort))
            /\ Contains(config.rules.filter, "FilterSamePlace") =>
                  \A k \in 1..Len(Candidates(people, Places[place_idx])) :
                      people[Candidates(people, Places[place_idx])[k]].place
                          = Places[place_idx])
    /\ [][(FilterOnlySorted /\ Len(assignments') = Len(assignments) + 1) =>
             /\ Registered = ChosenWith(WithoutFilterEntry(config.rules.sort))
             /\ assignments'[Len(assignments')].person
                   = people[Registered].name]_vars

\* with <<SortByLeastServices, FilterSamePlace>> as sort rules and no
\* filter, a person was chosen for a place that is not its home place
C30_Witness ==
    /\ pc = "done"
    /\ config.rules.sort = <<"SortByLeastServices", "FilterSamePlace">>
    /\ config.rules.filter = <<>>
    /\ \E k \in 1..Len(assignments), i \in 1..Len(people) :
          /\ people[i].name = assignments[k].person
          /\ people[i].place # assignments[k].place
          /\ people[i].different_place_services > 0

----------------------------------------------------------------------------
(* One person at two places of one date *)

\* C31: without FilterSamePlace the candidates of every slot are all the
\* people, in their current order, those already assigned to an earlier
\* place of the same date included: nothing keeps the engine from giving
\* one person two places of one date.
C31_AllCandidates ==
    (SlotPending /\ ~FilterActive) =>
        /\ Candidates(people, Places[place_idx]) = [i \in 1..Len(people) |-> i]
        /\ \A i \in 1..Len(people) :
              people[i].last_service = Some(dates[date_idx]) =>
                  Contains(Candidates(people, Places[place_idx]), i)

\* three people, two places, SortByLeastServices alone: one person holds
\* both places of the second date
C31_Witness ==
    /\ pc = "done"
    /\ ~FilterActive
    /\ config.rules.sort = <<"SortByLeastServices">>
    /\ Len(people) = 3
    /\ UniqueNames
    /\ Places = <<"A", "B">>
    /\ Len(dates) = 2
    /\ dates[1] # dates[2]
    /\ Len(assignments) = 4
    /\ assignments[3].date = assignments[4].date
    /\ assignments[3].place # assignments[4].place
    /\ assignments[3].person = assignments[4].person

----------------------------------------------------------------------------
(* Home places first *)

HomePlaceFirst ==
    /\ config.rules.sort # <<>>
    /\ config.rules.sort[1] \in {"SortByOwnPlace", "SortByDifferentPlaceServices"}

EveryPlaceHasHome ==
    \A k \in 1..Len(Places) :
        \E i \in 1..Len(people) : people[i].place = Places[k]

\* C32: when SortByOwnPlace or SortByDifferentPlaceServices is the first
\* sort rule and every configured place is the home place of at least one
\* person, every assignment of the run goes to a person whose home place is
\* the place of the slot and different_place_services is 0 for every person
\* in every state of the run, with FilterSamePlace and without it.
C32_HomePlaceOnly ==
    /\ [](HomePlaceFirst /\ EveryPlaceHasHome =>
            \A i \in 1..Len(people) : people[i].different_place_services = 0)
    /\ [][(HomePlaceFirst /\ EveryPlaceHasHome
               /\ Len(assignments') = Len(assignments) + 1) =>
             /\ people[Registered].place = Places[place_idx]
             /\ assignments'[Len(assignments')] =
                   [date   |-> dates[date_idx],
                    place  |-> Places[place_idx],
                    person |-> people[Registered].name]]_vars

\* a run without the filter has filled two places by their own people
C32_Witness ==
    /\ pc = "done"
    /\ ~FilterActive
    /\ HomePlaceFirst
    /\ EveryPlaceHasHome
    /\ \E k, l \in 1..Len(assignments) :
          /\ assignments[k].place = "A"
          /\ assignments[l].place = "B"

----------------------------------------------------------------------------
(* Swapping twice *)

\* the counters of a person that an edit maintains
Counters(p) ==
    <<p.total_services, p.weekday_counts, p.place_counts,
      p.different_place_services>>

\* swap_assignments on the cells s1 and s2 with the people they show, as
\* handle_cell_click calls it
SwapCells(as, ps, gs, s1, s2) ==
    swap_assignments(as, ps, gs,
                     s1[1], s1[2], CellPerson(as, s1[1], s1[2])[1],
                     s2[1], s2[2], CellPerson(as, s2[1], s2[2])[1])

\* C33: Swap is an involution. On assignments and people that agree,
\* swapping two distinct occupied slots and then swapping the same two slots
\* again, with the people they then show, gives back every assignment and
\* the total_services, weekday_counts, place_counts and
\* different_place_services of every person.
C33_SwapTwiceRestores ==
    (pc = "edit" /\ Agree(assignments, people)) =>
        \A s1, s2 \in SwapSlots :
            (/\ s1 # s2
             /\ CellPerson(assignments, s1[1], s1[2]) # None
             /\ CellPerson(assignments, s2[1], s2[2]) # None) =>
                LET r1 == SwapCells(assignments, people, groups, s1, s2)
                    r2 == SwapCells(r1.assignments, r1.people, r1.groups,
                                    s1, s2)
                IN  /\ r1.found
                    /\ CellPerson(r1.assignments, s1[1], s1[2])
                          = CellPerson(assignments, s2[1], s2[2])
                    /\ CellPerson(r1.assignments, s2[1], s2[2])
                          = CellPerson(assignments, s1[1], s1[2])
                    /\ r2.found
                    /\ r2.assignments = assignments
                    /\ Len(r2.people) = Len(people)
                    /\ \A i \in 1..Len(people) :
                          /\ r2.people[i].name = people[i].name
                          /\ Counters(r2.people[i]) = Counters(people[i])

\* after a swap between the first and the last date: the ledgers agree with
\* the assignments, the slots of the first and the last assignment show
\* different people, and the holder of the last one has the first date as
\* last_service
C33_Witness ==
    /\ pc = "edit"
    /\ Agree(assignments, people)
    /\ Len(assignments) = 4
    /\ assignments[1].person # assignments[4].person
    /\ assignments[1].place # assignments[4].place
    /\ \E i \in 1..Len(people) :
          /\ people[i].name = assignments[4].person
          /\ people[i].last_service = Some(assignments[1].date)

----------------------------------------------------------------------------
(* The ledgers rebuilt by the GUI *)

\* generate_schedule followed by the delivery of ScheduleGenerated(Ok(..))
\* for the config that is still selected
RebuildNext ==
    \/ SkipException
    \/ Shuffle
    \/ FillPlace
    \/ NextDate
    \/ Return
    \/ ScheduleGenerated

RebuildSpec == Init /\ [][RebuildNext]_vars

\* C34: GUI ledger rebuild equals the engine ledger. When the result of a
\* create_schedule run is delivered, the people rebuilt from the assignments
\* have, for every person name, the same total_services, weekday_counts,
\* place_counts, different_place_services, last_service and group date as
\* the people of that run: the rebuilt people are the people of the run in
\* another order.
C34_RebuildEqualsEngine ==
    [][(pc = "done" /\ pc' = "edit") =>
          /\ Len(people') = Len(people)
          /\ \E perm \in Permutations(1..Len(people)) :
                \A j \in 1..Len(people) :
                    /\ people'[j].name = people[perm[j]].name
                    /\ Counters(people'[j]) = Counters(people[perm[j]])
                    /\ people'[j].last_service = people[perm[j]].last_service
                    /\ groups'[people'[j].group_state].last_service
                          = groups[people[perm[j]].group_state].last_service]_vars

----------------------------------------------------------------------------
(* get_weekdays, src/dates.rs *)

\* NaiveDate::MAX, 262142-12-31, as a day number: the last date that chrono
\* represents
NaiveDate_MAX == 95745399

\* the longest range from start to end, in days
MaxRange == 8

\* start and end: the first days of September 2025 and the last days that
\* exist
WeekdayDates == (739495..739503) \cup ((NaiveDate_MAX - 2)..NaiveDate_MAX)

WeekdayLists ==
    { <<>>, <<"Mon">>, <<"Thu", "Fri">>, <<"Wed", "Wed">>,
      <<"Mon", "Tue", "Wed", "Thu", "Fri", "Sat", "Sun">> }

\* the Dates of a config: from, to and weekdays are the arguments main and
\* generate_schedule pass to get_weekdays
WeekdayConfigs ==
    { c \in { [ dates  |-> [from |-> f, to |-> t, weekdays |-> w,
                            exceptions |-> e],
                places |-> [places |-> <<>>],
                group  |-> <<>>,
                rules  |-> [sort |-> <<>>, filter |-> <<>>] ] :
              f \in WeekdayDates, t \in WeekdayDates, w \in WeekdayLists,
              e \in {<<>>, <<739498>>} } :
        c.dates.to - c.dates.from <= MaxRange }

\* `let mut dates = Vec::new(); let mut current = *start;`
WeekdaysInit ==
    /\ config \in WeekdayConfigs
    /\ dates = <<>>
    /\ people = <<>>
    /\ groups = <<>>
    /\ assignments = <<>>
    /\ date_idx = 1
    /\ place_idx = 1
    /\ pc = "weekdays"
    /\ selected_config = None
    /\ in_flight = [path \in ConfigPaths |-> 0]
    /\ selected_cell = None
    /\ highlighted_names = <<None, None, None, None>>
    /\ current = Some(config.dates.from)

\* one iteration of `while current <= *end`; NaiveDate += Duration panics
\* when the sum is no NaiveDate
WeekdaysStep ==
    /\ pc = "weekdays"
    /\ current[1] <= config.dates.to
    /\ dates' = IF Contains(config.dates.weekdays, weekday(current[1]))
                THEN Append(dates, current[1])
                ELSE dates
    /\ IF current[1] + 1 > NaiveDate_MAX
       THEN pc' = "panicked" /\ current' = current
       ELSE pc' = pc /\ current' = Some(current[1] + 1)
    /\ UNCHANGED <<config, people, groups, assignments, date_idx, place_idx,
                   selected_config, in_flight, selected_cell,
                   highlighted_names>>

\* the loop condition fails: `dates` is returned
WeekdaysReturn ==
    /\ pc = "weekdays"
    /\ current[1] > config.dates.to
    /\ pc' = "returned"
    /\ UNCHANGED <<dates, config, people, groups, assignments, date_idx,
                   place_idx, selected_config, in_flight, selected_cell,
                   highlighted_names, current>>

WeekdaysNext == WeekdaysStep \/ WeekdaysReturn

WeekdaysSpec == WeekdaysInit /\ [][WeekdaysNext]_vars

\* the dates from..to whose weekday is listed, ascending
MatchingDates ==
    IF config.dates.from > config.dates.to THEN <<>>
    ELSE SelectSeq([k \in 1..(config.dates.to - config.dates.from + 1) |->
                       config.dates.from + k - 1],
                   LAMBDA d : Contains(config.dates.weekdays, weekday(d)))

\* C38: get_weekdays(start, end, weekdays) comes to its return for every
\* start and end, and returns the dates d with start <= d <= end whose
\* weekday is in weekdays, each once and ascending: the empty list when
\* start > end or weekdays is empty; exception dates are not removed.
C38_ReturnsMatchingDates ==
    /\ pc # "panicked"
    /\ pc = "returned" =>
          /\ dates = MatchingDates
          /\ \A i, j \in 1..Len(dates) : i < j => dates[i] < dates[j]
          /\ (config.dates.from > config.dates.to) => dates = <<>>
          /\ (config.dates.weekdays = <<>>) => dates = <<>>

----------------------------------------------------------------------------
(* The highlight slots, src/gui/state.rs *)

\* the names that can be clicked in the summary or in a cell
HighlightNames ==
    { FormatName(<<"a">>, <<"M">>), FormatName(<<"b">>, <<"M">>),
      FormatName(<<"c">>, <<"D">>), FormatName(<<"d">>, <<"D">>),
      FormatName(<<"e">>, <<"E">>) }

\* iter().position(..): the first slot that holds x, 0 when there is none
SlotOf(hn, x) ==
    IF \E k \in 1..Len(hn) : hn[k] = x
    THEN CHOOSE k \in 1..Len(hn) :
            hn[k] = x /\ \A l \in 1..(k - 1) : hn[l] # x
    ELSE 0

\* a toggle that puts a new name into the first slot when all are taken
toggle_highlighted_name_overwrite(hn, person) ==
    IF SlotOf(hn, Some(person)) # 0
    THEN [hn EXCEPT ![SlotOf(hn, Some(person))] = None]
    ELSE IF SlotOf(hn, None) # 0
    THEN [hn EXCEPT ![SlotOf(hn, None)] = Some(person)]
    ELSE [hn EXCEPT ![1] = Some(person)]

\* AppState::toggle_highlighted_name(&mut self, person)
toggle_highlighted_name(hn, person) ==
    IF SlotOf(hn, Some(person)) # 0
    THEN [hn EXCEPT ![SlotOf(hn, Some(person))] = None]
    ELSE IF SlotOf(hn, None) # 0
    THEN [hn EXCEPT ![SlotOf(hn, None)] = Some(person)]
    ELSE hn

HighlightInit ==
    /\ dates = <<>>
    /\ config = NoConfig
    /\ people = <<>>
    /\ groups = <<>>
    /\ assignments = <<>>
    /\ date_idx = 1
    /\ place_idx = 1
    /\ pc = "highlight"
    /\ AppState_default

\* Message::SummaryPersonClicked(person), and Message::CellRightClicked on
\* a cell that shows person
ToggleHighlightedName ==
    /\ pc = "highlight"
    /\ \E person \in HighlightNames :
          highlighted_names' = toggle_highlighted_name(highlighted_names, person)
    /\ UNCHANGED <<dates, config, people, groups, assignments, date_idx,
                   place_idx, pc, selected_config, in_flight, selected_cell,
                   current>>

\* Message::CellRightClicked on a cell that shows nobody
ClearHighlightedNames ==
    /\ pc = "highlight"
    /\ highlighted_names' = <<None, None, None, None>>
    /\ UNCHANGED <<dates, config, people, groups, assignments, date_idx,
                   place_idx, pc, selected_config, in_flight, selected_cell,
                   current>>

HighlightNext == ToggleHighlightedName \/ ClearHighlightedNames

HighlightSpec == HighlightInit /\ [][HighlightNext]_vars

\* C37: Highlight slots. After any sequence of toggle_highlighted_name
\* calls no name is in more than one of the four slots; toggling a
\* highlighted name clears its slot and no other, toggling a name that is
\* not highlighted puts it into the empty slot of lowest index, and with
\* four slots taken toggling a new name changes nothing.
C37_HighlightSlots ==
    /\ Len(highlighted_names) = 4
    /\ \A i, j \in 1..4 :
          (i # j /\ highlighted_names[i] # None) =>
              highlighted_names[i] # highlighted_names[j]
    /\ \A person \in HighlightNames :
          LET hn  == highlighted_names
              new == toggle_highlighted_name(hn, person)
              at  == {k \in 1..4 : hn[k] = Some(person)}
              free == {k \in 1..4 : hn[k] = None}
          IN  /\ at # {} =>
                    \A k \in 1..4 :
                        new[k] = IF k \in at THEN None ELSE hn[k]
              /\ (at = {} /\ free # {}) =>
                    \A k \in 1..4 :
                        new[k] = IF k \in free /\ \A l \in free : k <= l
                                 THEN Some(person)
                                 ELSE hn[k]
              /\ (at = {} /\ free = {}) => new = hn

\* the first slot was cleared after all four had been taken
C37_Witness ==
    /\ pc = "highlight"
    /\ highlighted_names[1] = None
    /\ \A k \in 2..4 : highlighted_names[k] # None

----------------------------------------------------------------------------
(* assignments_to_csv, src/csv.rs *)

\* `places`: the places that occur in the assignments
CsvPlaces(as) == {as[k].place : k \in 1..Len(as)}

\* the keys of `data`: the dates that occur in the assignments
CsvDates(as) == {as[k].date : k \in 1..Len(as)}

\* the keys of data[date]: the places assigned at the date
PlacesAt(as, date) ==
    {as[k].place : k \in {l \in 1..Len(as) : as[l].date = date}}

\* the number of fields of the header: "date" and one per place
CsvHeaderLen(as) == 1 + Cardinality(CsvPlaces(as))

\* the number of fields of the row of a date: the date and one per place
\* that data[date] holds
CsvRowLen(as, date) ==
    1 + Cardinality({g \in CsvPlaces(as) : g \in PlacesAt(as, date)})

\* C39: Rectangular output. In every create_schedule result all dates that
\* received an assignment received assignments for the same set of places,
\* so every row assignments_to_csv builds from it has as many fields as the
\* header.
C39_Rectangular ==
    pc = "done" =>
        /\ \A d1, d2 \in CsvDates(assignments) :
              PlacesAt(assignments, d1) = PlacesAt(assignments, d2)
        /\ \A d \in CsvDates(assignments) :
              /\ PlacesAt(assignments, d) = CsvPlaces(assignments)
              /\ CsvRowLen(assignments, d) = CsvHeaderLen(assignments)

\* a result under FilterSamePlace over two dates in which one of the two
\* configured places is never filled
C39_Witness ==
    /\ pc = "done"
    /\ FilterActive
    /\ Cardinality(CsvDates(assignments)) = 2
    /\ Places = <<"A", "B">>
    /\ CsvPlaces(assignments) = {"A"}

----------------------------------------------------------------------------
(* The GUI: src/gui/app.rs, src/gui/state.rs, src/gui/utils.rs *)

\* the commands that may be running at one time
MaxInFlight == 2

\* the largest counters from which a click is explored: a ledger that does
\* not agree with the assignments can grow with every swap
MaxLedger == 2

\* the rows and columns a click can name; row 0 is the header, column 0
\* the date
MaxRow == 2
MaxColumn == 2

\* load_config(path): the two files of the directory
load_config(path) ==
    IF path = "one.toml"
    THEN [ dates  |-> [from |-> 739495, to |-> 739497,
                       weekdays |-> <<"Mon", "Wed">>, exceptions |-> <<>>],
           places |-> [places |-> <<"A">>],
           group  |-> << [name |-> <<"M">>, place |-> "A",
                          members |-> <<Member("a"), Member("b")>>],
                         [name |-> <<"D">>, place |-> "B",
                          members |-> <<Member("c")>>] >>,
           rules  |-> [sort |-> <<"SortByLeastServices">>, filter |-> <<>>] ]
    ELSE [ dates  |-> [from |-> 739495, to |-> 739497,
                       weekdays |-> <<"Mon">>, exceptions |-> <<>>],
           places |-> [places |-> <<"A", "B">>],
           group  |-> << [name |-> <<"M">>, place |-> "A",
                          members |-> <<Member("a")>>],
                         [name |-> <<"M">>, place |-> "A",
                          members |-> <<Member("b")>>] >>,
           rules  |-> [sort |-> <<"SortByLeastServices">>,
                       filter |-> <<>>] ]

\* get_weekdays for an end before NaiveDate::MAX: the value returned
RECURSIVE get_weekdays(_, _, _)
get_weekdays(start, end, weekdays) ==
    IF start > end THEN <<>>
    ELSE (IF Contains(weekdays, weekday(start)) THEN <<start>> ELSE <<>>)
         \o get_weekdays(start + 1, end, weekdays)

\* the loop over the places of create_schedule for one date, from place k
\* on; the result is <<people, groups, assignments>>
RECURSIVE FillPlaces(_, _, _, _, _, _)
FillPlaces(c, date, k, ps, gs, as) ==
    IF k > Len(c.places.places) THEN <<ps, gs, as>>
    ELSE LET place_id == c.places.places[k]
             cands    == SelectSeq([i \in 1..Len(ps) |-> i],
                             LAMBDA i : ~Contains(c.rules.filter,
                                                  "FilterSamePlace")
                                        \/ ps[i].place = place_id)
             keys     == [i \in 1..Len(ps) |->
                             sort_key(ps[i], gs, date, place_id, c.rules)]
             sorted   == sort_by_key(cands, keys)
         IN  IF sorted = <<>>
             THEN FillPlaces(c, date, k + 1, ps, gs, as)
             ELSE LET chosen == first_mut(sorted)
                  IN  FillPlaces(c, date, k + 1,
                          [ps EXCEPT
                             ![chosen] = register_service(@, date, place_id)],
                          register_service_group(gs, ps[chosen], date),
                          Append(as, [date   |-> date,
                                      place  |-> place_id,
                                      person |-> ps[chosen].name]))

\* the assignment lists that the loop over the dates of create_schedule can
\* return, from date k on, one per choice of the shuffles
RECURSIVE ScheduleRuns(_, _, _, _, _, _)
ScheduleRuns(c, ds, k, ps, gs, as) ==
    IF k > Len(ds) THEN {as}
    ELSE IF Contains(c.dates.exceptions, ds[k])
    THEN ScheduleRuns(c, ds, k + 1, ps, gs, as)
    ELSE UNION { LET r == FillPlaces(c, ds[k], 1, shuffled, gs, as)
                 IN  ScheduleRuns(c, ds, k + 1, r[1], r[2], r[3]) :
                 shuffled \in Shuffles(ps) }

\* utils::generate_schedule(config_path): the values of Ok(assignments)
generate_schedule(path) ==
    LET c == load_config(path)
    IN  ScheduleRuns(c,
                     get_weekdays(c.dates.from, c.dates.to, c.dates.weekdays),
                     1, create_people(c.group, 1), create_groups(c.group),
                     <<>>)

GeneratedSchedules == [path \in ConfigPaths |-> generate_schedule(path)]

\* CellPosition
Positions == [row : 0..MaxRow, column : 0..MaxColumn]

\* the elements of a set of dates in ascending order
RECURSIVE SortedDates(_)
SortedDates(S) ==
    IF S = {} THEN <<>>
    ELSE LET m == CHOOSE d \in S : \A e \in S : d <= e
         IN  <<m>> \o SortedDates(S \ {m})

\* the order of the place names in a BTreeSet<String>
PlaceOrder == <<"A", "B">>

\* AppState::get_cell_info: <<>> for None, <<<<date, place, person>>>> for
\* Some((date, place, person))
get_cell_info(as, pos) ==
    IF pos.row = 0 \/ pos.column = 0 THEN None
    ELSE LET ds         == SortedDates(CsvDates(as))
             places_vec == SelectSeq(PlaceOrder,
                                     LAMBDA g : g \in CsvPlaces(as))
         IN  IF pos.row > Len(ds) \/ pos.column > Len(places_vec) THEN None
             ELSE LET date   == ds[pos.row]
                      place  == places_vec[pos.column]
                      person == CellPerson(as, date, place)
                  IN  IF person = None THEN None
                      ELSE Some(<<date, place, person[1]>>)

\* a click handler that selects the second cell after the swap
handle_cell_click_reselect(sel, as, ps, gs, pos) ==
    IF pos.row = 0
    THEN [selected_cell |-> sel, swapped |-> FALSE,
          assignments |-> as, people |-> ps, groups |-> gs]
    ELSE IF sel # None
    THEN IF sel[1] = pos
         THEN [selected_cell |-> None, swapped |-> FALSE,
               assignments |-> as, people |-> ps, groups |-> gs]
         ELSE LET cell1_info == get_cell_info(as, sel[1])
                  cell2_info == get_cell_info(as, pos)
              IN  IF cell1_info # None /\ cell2_info # None
                  THEN LET r == swap_assignments(as, ps, gs,
                                    cell1_info[1][1], cell1_info[1][2],
                                    cell1_info[1][3],
                                    cell2_info[1][1], cell2_info[1][2],
                                    cell2_info[1][3])
                       IN  [selected_cell |-> Some(pos), swapped |-> TRUE,
                            assignments |-> r.assignments,
                            people |-> r.people, groups |-> r.groups]
                  ELSE [selected_cell |-> Some(pos), swapped |-> FALSE,
                        assignments |-> as, people |-> ps, groups |-> gs]
    ELSE [selected_cell |-> Some(pos), swapped |-> FALSE,
          assignments |-> as, people |-> ps, groups |-> gs]

\* AppState::handle_cell_click; the result holds the fields of the state
\* after the call and whether swap_assignments was called
handle_cell_click(sel, as, ps, gs, pos) ==
    IF pos.row = 0
    THEN [selected_cell |-> sel, swapped |-> FALSE,
          assignments |-> as, people |-> ps, groups |-> gs]
    ELSE IF sel # None
    THEN IF sel[1] = pos
         THEN [selected_cell |-> None, swapped |-> FALSE,
               assignments |-> as, people |-> ps, groups |-> gs]
         ELSE IF pos.row > 0 /\ sel[1].row > 0
         THEN LET cell1_info == get_cell_info(as, sel[1])
                  cell2_info == get_cell_info(as, pos)
              IN  IF cell1_info # None /\ cell2_info # None
                  THEN LET r == swap_assignments(as, ps, gs,
                                    cell1_info[1][1], cell1_info[1][2],
                                    cell1_info[1][3],
                                    cell2_info[1][1], cell2_info[1][2],
                                    cell2_info[1][3])
                       IN  [selected_cell |-> None, swapped |-> TRUE,
                            assignments |-> r.assignments,
                            people |-> r.people, groups |-> r.groups]
                  ELSE [selected_cell |-> None, swapped |-> FALSE,
                        assignments |-> as, people |-> ps, groups |-> gs]
         ELSE [selected_cell |-> None, swapped |-> FALSE,
               assignments |-> as, people |-> ps, groups |-> gs]
    ELSE [selected_cell |-> Some(pos), swapped |-> FALSE,
          assignments |-> as, people |-> ps, groups |-> gs]

\* DutyRosterApp::new: the default state
GuiInit ==
    /\ dates = <<>>
    /\ config = NoConfig
    /\ people = <<>>
    /\ groups = <<>>
    /\ assignments = <<>>
    /\ date_idx = 1
    /\ place_idx = 1
    /\ pc = "gui"
    /\ AppState_default

\* the number of running commands
InFlight == in_flight["one.toml"] + in_flight["two.toml"]

\* Message::ConfigsLoaded(Ok(files)): the first file is selected when none
\* is
ConfigsLoaded ==
    /\ pc = "gui"
    /\ selected_config = None
    /\ \E path \in ConfigPaths : selected_config' = Some(path)
    /\ UNCHANGED <<dates, config, people, groups, assignments, date_idx,
                   place_idx, pc, in_flight, selected_cell, highlighted_names,
                   current>>

\* Message::ConfigSelected(config_path)
ConfigSelected ==
    /\ pc = "gui"
    /\ InFlight < MaxInFlight
    /\ \E path \in ConfigPaths :
          /\ selected_config' = Some(path)
          /\ in_flight' = [in_flight EXCEPT ![path] = @ + 1]
    /\ assignments' = <<>>
    /\ people' = <<>>
    /\ groups' = <<>>
    /\ UNCHANGED <<dates, config, date_idx, place_idx, pc, selected_cell,
                   highlighted_names, current>>

\* Message::GenerateSchedule
GenerateSchedule ==
    /\ pc = "gui"
    /\ InFlight < MaxInFlight
    /\ selected_config # None
    /\ in_flight' = [in_flight EXCEPT ![selected_config[1]] = @ + 1]
    /\ UNCHANGED <<dates, config, people, groups, assignments, date_idx,
                   place_idx, pc, selected_config, selected_cell,
                   highlighted_names, current>>

\* Message::ScheduleGenerated(Ok(assignments)), delivered when one of the
\* running generate_schedule futures completes
ScheduleGeneratedOk ==
    /\ pc = "gui"
    /\ \E path \in ConfigPaths :
          /\ in_flight[path] > 0
          /\ in_flight' = [in_flight EXCEPT ![path] = @ - 1]
          /\ \E as \in GeneratedSchedules[path] :
                /\ assignments' = as
                /\ IF selected_config # None
                   THEN LET c == load_config(selected_config[1])
                            r == RegisterAssignments(create_people(c.group, 1),
                                                     create_groups(c.group),
                                                     as, 1)
                        IN  people' = r[1] /\ groups' = r[2]
                   ELSE UNCHANGED <<people, groups>>
    /\ selected_cell' = None
    /\ UNCHANGED <<dates, config, date_idx, place_idx, pc, selected_config,
                   highlighted_names, current>>

\* Message::CellClicked(position); explored while the counters of the people
\* are within MaxLedger
CellClicked ==
    /\ pc = "gui"
    /\ LedgerSize(people) <= MaxLedger
    /\ \E pos \in Positions :
          LET r == handle_cell_click(selected_cell, assignments, people,
                                     groups, pos)
          IN  /\ selected_cell' = r.selected_cell
              /\ assignments' = r.assignments
              /\ people' = r.people
              /\ groups' = r.groups
    /\ UNCHANGED <<dates, config, date_idx, place_idx, pc, selected_config,
                   in_flight, highlighted_names, current>>

GuiNext ==
    \/ ConfigsLoaded
    \/ ConfigSelected
    \/ GenerateSchedule
    \/ ScheduleGeneratedOk
    \/ CellClicked

GuiSpec == GuiInit /\ [][GuiNext]_vars

\* C35: under every interleaving of ConfigSelected and GenerateSchedule
\* with the delivery of their ScheduleGenerated results, whenever the
\* people of the state are not empty, their total_services add up to the
\* number of assignments of the state.
C35_CoherentState ==
    (pc = "gui" /\ people # <<>>) =>
        TotalServices(people) = Len(assignments)

\* the fields of the state that a click can change are as before
ClickLeaves(r) ==
    /\ ~r.swapped
    /\ r.assignments = assignments
    /\ r.people = people
    /\ r.groups = groups

\* C36: Cell-click state machine. With no selection a click on a cell of a
\* row > 0 selects it; with a selection a click on a cell of a row > 0
\* leaves no selection: the same cell deselects without a swap, another
\* cell makes at most one swap attempt, made only when both cells resolve
\* to assignments; a click on row 0 changes nothing. selected_cell never
\* holds a position of row 0, and ScheduleGenerated(Ok) resets it to None.
C36_CellClick ==
    /\ [](pc = "gui" =>
            /\ selected_cell # None => selected_cell[1].row > 0
            /\ \A pos \in Positions :
                  LET r == handle_cell_click(selected_cell, assignments,
                                             people, groups, pos)
                  IN  /\ pos.row = 0 =>
                            r.selected_cell = selected_cell /\ ClickLeaves(r)
                      /\ (pos.row > 0 /\ selected_cell = None) =>
                            r.selected_cell = Some(pos) /\ ClickLeaves(r)
                      /\ (pos.row > 0 /\ selected_cell # None) =>
                            /\ r.selected_cell = None
                            /\ selected_cell[1] = pos => ClickLeaves(r)
                            /\ r.swapped <=>
                                  /\ selected_cell[1] # pos
                                  /\ get_cell_info(assignments,
                                                   selected_cell[1]) # None
                                  /\ get_cell_info(assignments, pos) # None
                            /\ ~r.swapped => ClickLeaves(r))
    /\ [][(pc = "gui" /\ InFlight' < InFlight) =>
             /\ selected_cell' = None
             /\ \E path \in ConfigPaths :
                   assignments' \in GeneratedSchedules[path]]_vars

\* two cells of one group have been swapped by two clicks: the group date
\* is older than the last service of a member, and nothing is selected
C36_Witness ==
    /\ pc = "gui"
    /\ selected_cell = None
    /\ assignments # <<>>
    /\ \E i \in 1..Len(people) :
          /\ people[i].last_service # None
          /\ groups[people[i].group_state].last_service # None
          /\ groups[people[i].group_state].last_service[1]
                < people[i].last_service[1]

====
